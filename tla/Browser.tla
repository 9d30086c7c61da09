-------------------------------- MODULE Browser --------------------------------
(***************************************************************************)
(* The router of the browser client (explorer/static/app.js): one page     *)
(* area, renders that wait for their answers and finish in any order, and  *)
(* the interval that refreshes some of the pages.                          *)
(*                                                                         *)
(* render() takes a token and compares it later with the newest one; only  *)
(* whether they are equal matters, so a render carries `latest' instead.   *)
(* What a page shows is named by its path.  A view without a request, like *)
(* a search for nothing, is rendered in one go: what awaits it goes on     *)
(* before anything else happens.                                           *)
(***************************************************************************)
EXTENDS Naturals

CONSTANTS
    Path,           \* the locations a user visits
    Unmatched,      \* those no entry of ROUTES matches
    Refreshing,     \* those whose view is in AUTO_REFRESH
    Awaits,         \* Awaits[p]: requests the view of p makes one after the other
    Hits,           \* Hits[p]: the pages a search at p may go to at once, its only match
    None,           \* no render, no page
    MaxPending      \* bound: renders waiting at a time

VARIABLES
    location,       \* window.location
    visible,        \* document.visibilityState
    started,        \* start() has called render
    shown,          \* what #view holds
    dataset,        \* view.dataset.path
    busy,           \* aria-busy
    pending,        \* the renders that wait, one per slot
    timer           \* refreshTimer is an interval that runs

page == <<shown, dataset, busy, timer>>
vars == <<location, visible, started, page, pending>>

Slot == 1..MaxPending

Init ==
    /\ location \in Path /\ visible = TRUE /\ started = FALSE
    /\ shown = None /\ dataset = None /\ busy = FALSE
    /\ pending = [s \in Slot |-> None]
    /\ timer = FALSE

-------------------------------------------------------------------------------
(* render *)

\* ++renderToken: the renders that wait are not the newest any more.
Outdated == [s \in Slot |-> IF pending[s] = None THEN None ELSE [pending[s] EXCEPT !.latest = FALSE]]

\* No entry of ROUTES matches: nothing to wait for, and the interval is left alone.
RenderUnknown(p) ==
    /\ p \in Unmatched
    /\ shown' = "notfound" /\ busy' = FALSE
    /\ pending' = Outdated
    /\ UNCHANGED <<dataset, timer>>

RenderAtOnce(p) ==
    /\ p \notin Unmatched /\ Awaits[p] = 0
    /\ shown' = p /\ dataset' = p /\ busy' = FALSE
    /\ pending' = Outdated
    /\ timer' = (p \in Refreshing)

\* Up to the first await of the view; the render then waits in slot s.
BeginIn(s, p) ==
    /\ busy' = TRUE
    /\ shown' = IF dataset = p THEN shown ELSE "loading"
    /\ dataset' = p
    /\ pending' = [Outdated EXCEPT ![s] = [path |-> p, left |-> Awaits[p], latest |-> TRUE]]

RenderKnown(p) ==
    /\ p \notin Unmatched /\ Awaits[p] > 0
    /\ \E s \in Slot : pending[s] = None /\ BeginIn(s, p)
    /\ UNCHANGED timer

Render(p) == RenderUnknown(p) \/ RenderAtOnce(p) \/ RenderKnown(p)

\* The end of render(), reached by the newest render and by older ones alike.
Finish(s) ==
    /\ busy' = (busy /\ ~pending[s].latest)
    /\ timer' = (pending[s].path \in Refreshing)
    /\ pending' = [pending EXCEPT ![s] = None]

Waiting(s) == pending[s] # None

AnswerArrives(s) ==
    /\ Waiting(s) /\ pending[s].left > 1
    /\ pending' = [pending EXCEPT ![s].left = @ - 1]
    /\ UNCHANGED <<location, visible, started, page>>

\* The view writes the page, whoever asked for another one meanwhile.
ViewWrites(s) ==
    /\ Waiting(s) /\ pending[s].left = 1
    /\ shown' = pending[s].path
    /\ Finish(s)
    /\ UNCHANGED <<location, visible, started, dataset>>

\* viewSearch with one match: the render of that page begins inside this one, which
\* then ends, as an old one, and finds that its own page is not refreshed.
Redirect(s) ==
    /\ Waiting(s) /\ pending[s].left = 1
    /\ \E p \in Hits[pending[s].path] : location' = p /\ BeginIn(s, p)
    /\ timer' = (pending[s].path \in Refreshing)
    /\ UNCHANGED <<visible, started>>

RequestFails(s) ==
    /\ Waiting(s) /\ pending[s].latest
    /\ shown' = "error"
    /\ Finish(s)
    /\ UNCHANGED <<location, visible, started, dataset>>

\* The catch block returns early: neither the page nor the interval changes.
OldRequestFails(s) ==
    /\ Waiting(s) /\ ~pending[s].latest
    /\ pending' = [pending EXCEPT ![s] = None]
    /\ UNCHANGED <<location, visible, started, page>>

RenderGoesOn(s) ==
    AnswerArrives(s) \/ ViewWrites(s) \/ Redirect(s) \/ RequestFails(s) \/ OldRequestFails(s)

-------------------------------------------------------------------------------
(* What calls render *)

\* start() waits for two answers, good or bad, then renders.
Start ==
    /\ ~started /\ started' = TRUE
    /\ Render(location)
    /\ UNCHANGED <<location, visible>>

\* navigate, or popstate
Navigate(p) ==
    /\ location' = p
    /\ Render(p)
    /\ UNCHANGED <<visible, started>>

TimerFires ==
    /\ timer /\ visible
    /\ Render(location)
    /\ UNCHANGED <<location, visible, started>>

VisibilityChanges ==
    /\ visible' = ~visible
    /\ UNCHANGED <<location, started, page, pending>>

Next ==
    \/ Start \/ TimerFires \/ VisibilityChanges
    \/ \E p \in Path : Navigate(p)
    \/ \E s \in Slot : RenderGoesOn(s)

Spec == Init /\ [][Next]_vars

\* start() runs, an interval fires again and again, and every request is answered or
\* fails in the end.
FairSpec ==
    /\ Spec
    /\ WF_vars(Start) /\ WF_vars(TimerFires)
    /\ \A s \in Slot : WF_vars(RenderGoesOn(s))

-------------------------------------------------------------------------------

\* "Overview, Nodes and Mempool refresh every 10 s ... while the tab is visible": a
\* user who stays on such a page with the tab visible sees it rendered again and
\* again, whatever pages were visited before and however late their answers come.
RefreshesWhileShown ==
    \A p \in Refreshing :
        <>[](location = p /\ visible) =>
            []<>(\E s \in Slot : Waiting(s) /\ pending[s].path = p)
===============================================================================
