------------------------------ MODULE ReportPage ------------------------------
(***************************************************************************)
(* The report in a browser: the script that renderer.py puts into the page *)
(* (_JS).  Summary and sections are shown one at a time; the first time a  *)
(* section is shown a timer is set that creates the two grids of its split *)
(* view, which may be after the user has left it.  In the grids the mouse  *)
(* highlights, and a click pins, the rows of one source line.              *)
(*                                                                         *)
(* page is a sequence of sections [kid, tabs, src, asm]: the sids of the   *)
(* rows of the two grids, null where a row has none.  Scrolling, sizes    *)
(* and colours are left out; ag-grid calls the handlers of a cell.         *)
(***************************************************************************)
EXTENDS Integers, Sequences

CONSTANTS
  null,              \* null, "" and a row without sid: all false
  MaxSections         \* bound: fairness and liveness name so many sections

VARIABLES
  page,               \* <<>> until it is loaded, and then does not change
  shown,              \* the section that is active, or 0: the summary
  tab,                \* the active tab of each section
  _gridInited,        \* sections whose timer has been set
  timers,             \* timers that have not fired
  grids               \* section -> its grids, a sequence of at most one
                      \* [pinned, src, asm]: the sids pinned and highlighted,
                      \* and the class of each row, "null" if it has none

ui == <<page, shown, tab, _gridInited, timers, grids>>

Sections == DOMAIN page
HasSplit(s) == \E n \in DOMAIN page[s].tabs : page[s].tabs[n] = "split"
Panels == {"src", "asm"}

-----------------------------------------------------------------------------
\* The classes of a panel's rows after _setHl(api, sid, cls).
_setHl(sids, sid, cls) ==
  [n \in DOMAIN sids |-> IF sid # null /\ sids[n] = sid THEN cls ELSE "null"]

\* _doHl: both panels of section s.
_doHl(s, pinned, sid, cls) ==
  <<[pinned |-> pinned, src |-> _setHl(page[s].src, sid, cls),
     asm |-> _setHl(page[s].asm, sid, cls)]>>

PageInit ==
  /\ page = <<>>
  /\ shown = 0
  /\ tab = <<>>
  /\ _gridInited = {}
  /\ timers = {}
  /\ grids = <<>>

\* The page is loaded: render_html has made the first tab of each active.
load(p) ==
  /\ page = <<>>
  /\ page' = p
  /\ tab' = [s \in DOMAIN p |-> p[s].tabs[1]]
  /\ grids' = [s \in DOMAIN p |-> <<>>]
  /\ UNCHANGED <<shown, _gridInited, timers>>

showKernel(s) ==
  /\ shown' = s
  /\ IF s \in _gridInited THEN UNCHANGED <<_gridInited, timers>>
     ELSE /\ _gridInited' = _gridInited \cup {s}
          /\ timers' = timers \cup {s}
  /\ UNCHANGED <<page, tab, grids>>

showSummary ==
  /\ shown # 0
  /\ shown' = 0
  /\ UNCHANGED <<page, tab, _gridInited, timers, grids>>

switchTab(s, t) ==
  /\ shown = s
  /\ tab' = [tab EXCEPT ![s] = t]
  /\ UNCHANGED <<page, shown, _gridInited, timers, grids>>

\* Mutant: a timer does nothing for a section that is no longer shown.
_saInitGrids_IfShown(s) ==
  /\ s \in timers
  /\ timers' = timers \ {s}
  /\ grids' = IF shown = s /\ HasSplit(s)
              THEN [grids EXCEPT ![s] = _doHl(s, null, null, "null")] ELSE grids
  /\ UNCHANGED <<page, shown, tab, _gridInited>>

\* A timer fires: _saInitGrids, if the section has a split view.
_saInitGrids(s) ==
  /\ s \in timers
  /\ timers' = timers \ {s}
  /\ grids' = IF HasSplit(s) THEN [grids EXCEPT ![s] = _doHl(s, null, null, "null")]
              ELSE grids
  /\ UNCHANGED <<page, shown, tab, _gridInited>>

Visible(s) == shown = s /\ tab[s] = "split" /\ grids[s] # <<>>

\* Mutant: a row that is pinned does not stop the mouse from highlighting.
onCellMouseOver_Pinned(s, panel, n) ==
  /\ Visible(s)
  /\ page[s][panel][n] # null
  /\ grids' = [grids EXCEPT ![s] = _doHl(s, @[1].pinned, page[s][panel][n], "hl")]
  /\ UNCHANGED <<page, shown, tab, _gridInited, timers>>

onCellMouseOver(s, panel, n) ==
  /\ Visible(s)
  /\ grids[s][1].pinned = null
  /\ page[s][panel][n] # null
  /\ grids' = [grids EXCEPT ![s] = _doHl(s, null, page[s][panel][n], "hl")]
  /\ UNCHANGED <<page, shown, tab, _gridInited, timers>>

\* The handler that both grids register for leaving a cell.  ag-Grid has no
\* event of this name (its own is cellMouseOut), so a page may never take it.
onCellMouseLeave(s) ==
  /\ Visible(s)
  /\ grids[s][1].pinned = null
  /\ grids' = [grids EXCEPT ![s] = _doHl(s, null, null, "null")]
  /\ UNCHANGED <<page, shown, tab, _gridInited, timers>>

\* A click on a row pins its sid, or unpins it; another click moves the pin.
onRowClicked(s, panel, n) ==
  /\ Visible(s)
  /\ page[s][panel][n] # null
  /\ grids' = [grids EXCEPT ![s] =
       IF page[s][panel][n] = @[1].pinned THEN _doHl(s, null, null, "null")
       ELSE _doHl(s, page[s][panel][n], page[s][panel][n], "pinned")]
  /\ UNCHANGED <<page, shown, tab, _gridInited, timers>>

\* A row of the summary is clicked, the back button, a tab, or the mouse.
PageNext ==
  \/ shown = 0 /\ \E s \in Sections : showKernel(s)
  \/ showSummary
  \/ \E s \in Sections :
       \/ \E n \in DOMAIN page[s].tabs : switchTab(s, page[s].tabs[n])
       \/ _saInitGrids(s)
       \/ onCellMouseLeave(s)
       \/ \E panel \in Panels : \E n \in DOMAIN page[s][panel] :
            onCellMouseOver(s, panel, n) \/ onRowClicked(s, panel, n)

\* The event loop of the browser gets to every timer.
Timers == \A s \in 1..MaxSections : WF_ui(_saInitGrids(s))

PageSpec(p) == PageInit /\ [][load(p) \/ PageNext]_ui /\ Timers

-----------------------------------------------------------------------------
\* The rows of a panel with a class, and those of a source line.
Marked(s, panel, cls) == {n \in DOMAIN page[s][panel] : grids[s][1][panel][n] = cls}
RowsOf(s, panel, sid) == {n \in DOMAIN page[s][panel] : page[s][panel][n] = sid}

(***************************************************************************)
(* "Hover to highlight correspondence - click to pin" (renderer.py:748):   *)
(* what the two grids of a section mark is all rows, in both, of one       *)
(* source line, or none; a pinned line stays marked as pinned, and nothing *)
(* else is marked with it, whatever the mouse does.                        *)
(***************************************************************************)
Correspondence ==
  \A s \in Sections : grids[s] # <<>> =>
    LET pinned == grids[s][1].pinned
    IN  IF pinned # null
        THEN \A panel \in Panels :
               Marked(s, panel, "pinned") = RowsOf(s, panel, pinned)
               /\ Marked(s, panel, "hl") = {}
        ELSE \E sid \in {null} \cup {page[s].asm[n] : n \in DOMAIN page[s].asm}
                                \cup {page[s].src[n] : n \in DOMAIN page[s].src} :
               \A panel \in Panels :
                 /\ Marked(s, panel, "pinned") = {}
                 /\ Marked(s, panel, "hl") = IF sid = null THEN {} ELSE RowsOf(s, panel, sid)

(***************************************************************************)
(* A section with a split view that has been shown gets its grids, even if *)
(* the user left it before its timer fired.                                *)
(***************************************************************************)
GridsAppear ==
  \A s \in 1..MaxSections : (s \in Sections /\ shown = s /\ HasSplit(s)) ~> (s \in Sections /\ grids[s] # <<>>)
=============================================================================
