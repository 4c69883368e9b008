--------------------------- MODULE StatusPageCache ---------------------------
(***************************************************************************)
(* The public status page of one slug in one process: the render cache     *)
(* with its single flight, the subscriber that invalidates it and tells    *)
(* the browsers over SSE (hub, throttle), and browsers that fetch the page *)
(* and refetch it when they are told.                                      *)
(*                                                                         *)
(* The content of the page is the number of changes it shows.  A flight is *)
(* known by the browser whose request leads it.  Sections under one mutex  *)
(* are atomic; the subscriber handles one event at a time.                 *)
(***************************************************************************)
EXTENDS Naturals, Sequences, FiniteSets

CONSTANTS
    Viewers,        \* browsers
    StreamBuffer,   \* capacity of a client's event channel
    MaxPageChanges, \* bound: changes of what the page shows
    MaxPageFaults   \* bound: lost events, failed queries, resets of the generations

ASSUME PageAssumption ==
    /\ IsFiniteSet(Viewers) /\ "nobody" \notin Viewers
    /\ StreamBuffer \in Nat \ {0} /\ MaxPageChanges \in Nat /\ MaxPageFaults \in Nat

VARIABLES
    pageChanges,    \* the database: changes committed so far
    updates,    \* statuspage.updates, in order: [change, urgent]
    handler,    \* handleEvent: [pc, change, urgent]
    cached,     \* renderCache.entries: the change the stored page shows, or NoPage
    gens,       \* renderCache.gens
    group,      \* singleflight: the leader of the registered flight, or Nobody
    fetch,      \* the request of each browser: [pc, leader, gen, html]
    page,       \* what each browser shows
    stream,     \* the hub: events queued for a browser, NotListening if not registered
    refresh,    \* the page's script: [due, heard]
    window,     \* throttle: the interval after a broadcast is not over
    trailing,   \* throttle: the change of the pending trailing fire, or NoPage
    needed,     \* observer: the change a browser had heard of when its request began
    genReset,   \* observer: the generations were reset
    pageFaults

pageVars == <<pageChanges, updates, handler, cached, gens, group, fetch, page, stream, refresh,
              window, trailing, needed, genReset, pageFaults>>

Nobody == "nobody"
NoPage == MaxPageChanges + 1
NotListening == <<NoPage>>
NoFetch == [pc |-> "idle", leader |-> Nobody, gen |-> 0, html |-> NoPage]

Content == 0..NoPage     \* what a page shows, or nothing
Updates == [change : 1..MaxPageChanges, urgent : BOOLEAN]
Request == [pc : {"idle", "lookup", "do", "wait", "again", "build", "store"},
            leader : Viewers \cup {Nobody}, gen : Nat, html : Content]

PageTypeOK ==
    /\ pageChanges \in 0..MaxPageChanges /\ updates \in Seq(Updates)
    /\ handler \in [pc : {"idle", "invalidate", "forget", "fire"},
                    change : 0..MaxPageChanges, urgent : BOOLEAN]
    /\ cached \in Content /\ gens \in Nat /\ group \in Viewers \cup {Nobody}
    /\ fetch \in [Viewers -> Request] /\ page \in [Viewers -> Content]
    /\ stream \in [Viewers -> Seq(Content)]
    /\ refresh \in [Viewers -> [due : BOOLEAN, heard : Content]]
    /\ window \in BOOLEAN /\ trailing \in Content
    /\ needed \in [Viewers -> Content] /\ genReset \in BOOLEAN /\ pageFaults \in Nat

PageInit ==
    /\ pageChanges = 0 /\ updates = <<>>
    /\ handler = [pc |-> "idle", change |-> 0, urgent |-> FALSE]
    /\ cached = NoPage /\ gens = 0 /\ group = Nobody
    /\ fetch = [v \in Viewers |-> NoFetch]
    /\ page = [v \in Viewers |-> NoPage]
    /\ stream = [v \in Viewers |-> NotListening]
    /\ refresh = [v \in Viewers |-> [due |-> FALSE, heard |-> 0]]
    /\ window = FALSE /\ trailing = NoPage
    /\ needed = [v \in Viewers |-> 0]
    /\ genReset = FALSE /\ pageFaults = 0

cacheVars == <<cached, gens, group>>
viewerVars == <<fetch, page, refresh, needed>>
hubVars == <<stream, window, trailing>>
PageFault == pageFaults < MaxPageFaults /\ pageFaults' = pageFaults + 1

-----------------------------------------------------------------------------
(* What the page shows changes; core NATS may lose the event *)

PageChanges(urgent, lost) ==
    /\ pageChanges < MaxPageChanges
    /\ pageChanges' = pageChanges + 1
    /\ IF lost THEN PageFault /\ UNCHANGED updates
       ELSE /\ updates' = Append(updates, [change |-> pageChanges + 1, urgent |-> urgent])
            /\ UNCHANGED pageFaults
    /\ UNCHANGED <<handler, cacheVars, viewerVars, hubVars, genReset>>

-----------------------------------------------------------------------------
(* handleEvent *)

HasAnyClients == \E v \in Viewers : stream[v] # NotListening

\* Nothing cached and nobody listening: the event is dropped.
SkipEvent ==
    /\ handler.pc = "idle" /\ updates # <<>>
    /\ ~HasAnyClients /\ cached = NoPage
    /\ updates' = Tail(updates)
    /\ UNCHANGED <<pageChanges, handler, cacheVars, viewerVars, hubVars, genReset, pageFaults>>

\* The slugs are resolved; a failed query drops the event.
resolveAffectedSlugs ==
    /\ handler.pc = "idle" /\ updates # <<>>
    /\ HasAnyClients \/ cached # NoPage
    /\ updates' = Tail(updates)
    /\ \/ /\ handler' = [pc |-> "invalidate", change |-> Head(updates).change,
                         urgent |-> Head(updates).urgent]
          /\ UNCHANGED pageFaults
       \/ PageFault /\ UNCHANGED handler
    /\ UNCHANGED <<pageChanges, cacheVars, viewerVars, hubVars, genReset>>

\* Invalidate, under the mutex: the entry goes, the generation moves.
InvalidateEntry ==
    /\ handler.pc = "invalidate"
    /\ cached' = NoPage /\ gens' = gens + 1
    /\ handler' = [handler EXCEPT !.pc = "forget"]
    /\ UNCHANGED <<pageChanges, updates, group, viewerVars, hubVars, genReset, pageFaults>>

\* Invalidate: singleflight's Forget detaches the flight in progress.
ForgetsNothing == group
Forgets == Nobody

Forget ==
    /\ handler.pc = "forget"
    /\ group' = Forgets
    /\ handler' = [handler EXCEPT !.pc = IF HasAnyClients THEN "fire" ELSE "idle"]
    /\ UNCHANGED <<pageChanges, updates, cached, gens, viewerVars, hubVars, genReset, pageFaults>>

\* Broadcast: a client whose channel is full misses the event.
Broadcast(c) ==
    [v \in Viewers |-> IF stream[v] # NotListening /\ Len(stream[v]) < StreamBuffer
                       THEN Append(stream[v], c) ELSE stream[v]]

\* Fire: at once when urgent (which cancels the trailing fire) or outside the
\* window, else as the one trailing fire at its end.
Fire ==
    /\ handler.pc = "fire"
    /\ IF handler.urgent \/ (trailing = NoPage /\ ~window)
       THEN /\ stream' = Broadcast(handler.change)
            /\ window' = TRUE /\ trailing' = NoPage
       ELSE trailing' = handler.change /\ UNCHANGED <<stream, window>>
    /\ handler' = [handler EXCEPT !.pc = "idle"]
    /\ UNCHANGED <<pageChanges, updates, cacheVars, viewerVars, genReset, pageFaults>>

\* The window ends: flush fires what is pending and opens the next window.
flush ==
    /\ window
    /\ IF trailing = NoPage THEN window' = FALSE /\ UNCHANGED <<stream, trailing>>
       ELSE stream' = Broadcast(trailing) /\ trailing' = NoPage /\ UNCHANGED window
    /\ UNCHANGED <<pageChanges, updates, handler, cacheVars, viewerVars, genReset, pageFaults>>

\* Another slug's Invalidate finds the map of generations at its cap.
ResetGenerations ==
    /\ PageFault
    /\ gens' = 0 /\ genReset' = TRUE
    /\ UNCHANGED <<pageChanges, updates, handler, cached, group, viewerVars, hubVars>>

\* The entry's TTL ends.
EntryExpires ==
    /\ cached # NoPage /\ cached' = NoPage
    /\ UNCHANGED <<pageChanges, updates, handler, gens, group, viewerVars, hubVars, genReset, pageFaults>>

-----------------------------------------------------------------------------
(* renderCache.Get, one request per browser at a time *)

GetKept == <<pageChanges, updates, handler, refresh, needed, hubVars, genReset>>

\* The response arrives; a failed one leaves the page as it was.
Shows(v, html) == page' = [page EXCEPT ![v] = html]

Lookup(v) ==
    /\ fetch[v].pc = "lookup"
    /\ IF cached # NoPage
       THEN Shows(v, cached) /\ fetch' = [fetch EXCEPT ![v] = NoFetch]
       ELSE fetch' = [fetch EXCEPT ![v].pc = "do"] /\ UNCHANGED page
    /\ UNCHANGED <<cacheVars, pageFaults>> /\ UNCHANGED GetKept

\* group.Do: join the registered flight or lead a new one.
Do(v) ==
    /\ fetch[v].pc = "do"
    /\ IF group # Nobody
       THEN fetch' = [fetch EXCEPT ![v] = [@ EXCEPT !.pc = "wait", !.leader = group]] /\ UNCHANGED group
       ELSE /\ group' = v
            /\ fetch' = [fetch EXCEPT ![v] = [@ EXCEPT !.pc = "again", !.leader = v]]
    /\ UNCHANGED <<cached, gens, page, pageFaults>> /\ UNCHANGED GetKept

\* The flight ends: its leader and everyone who joined it have the answer.
Lands(v, html) ==
    LET all == {w \in Viewers : fetch[w].leader = v} IN
    /\ fetch' = [w \in Viewers |-> IF w \in all THEN NoFetch ELSE fetch[w]]
    /\ page' = [w \in Viewers |-> IF w \in all /\ html # NoPage THEN html ELSE page[w]]
    /\ group' = IF group = v THEN Nobody ELSE group

\* The leader looks again, then remembers the generation.
LookupAgain(v) ==
    /\ fetch[v].pc = "again"
    /\ IF cached # NoPage
       THEN Lands(v, cached)
       ELSE /\ fetch' = [fetch EXCEPT ![v] = [@ EXCEPT !.pc = "build", !.gen = gens]]
            /\ UNCHANGED <<page, group>>
    /\ UNCHANGED <<cached, gens, pageFaults>> /\ UNCHANGED GetKept

\* The page is built from the database; an error goes to every waiter.
Build(v) ==
    /\ fetch[v].pc = "build"
    /\ \/ /\ fetch' = [fetch EXCEPT ![v] = [@ EXCEPT !.pc = "store", !.html = pageChanges]]
          /\ UNCHANGED <<page, group, needed, pageFaults>>
       \/ /\ PageFault /\ Lands(v, NoPage)
          /\ needed' = [w \in Viewers |-> IF fetch[w].leader = v THEN 0 ELSE needed[w]]
    /\ UNCHANGED <<cached, gens, pageChanges, updates, handler, refresh, hubVars, genReset>>

\* storeIfCurrent
StoresAnyway(v) == TRUE
IsCurrent(v) == gens = fetch[v].gen

storeIfCurrent(v) ==
    /\ fetch[v].pc = "store"
    /\ cached' = IF IsCurrent(v) THEN fetch[v].html ELSE cached
    /\ Lands(v, fetch[v].html)
    /\ UNCHANGED <<gens, pageFaults>> /\ UNCHANGED GetKept

-----------------------------------------------------------------------------
(* The browser *)

\* The visitor opens the page.
OpenPage(v) ==
    /\ page[v] = NoPage /\ fetch[v].pc = "idle"
    /\ fetch' = [fetch EXCEPT ![v].pc = "lookup"]
    /\ UNCHANGED <<pageChanges, updates, handler, cacheVars, page, refresh, needed, hubVars, genReset, pageFaults>>

\* The stream connects once the page is shown.
Register(v) ==
    /\ page[v] # NoPage /\ stream[v] = NotListening
    /\ stream' = [stream EXCEPT ![v] = <<>>]
    /\ UNCHANGED <<pageChanges, updates, handler, cacheVars, viewerVars, window, trailing, genReset, pageFaults>>

\* An update event asks for a refresh (after a pause, so several are one).
scheduleRefresh(v) ==
    /\ stream[v] # NotListening /\ stream[v] # <<>>
    /\ stream' = [stream EXCEPT ![v] = Tail(@)]
    /\ refresh' = [refresh EXCEPT ![v] = [due |-> TRUE, heard |-> Head(stream[v])]]
    /\ UNCHANGED <<pageChanges, updates, handler, cacheVars, fetch, page, needed, window, trailing,
                   genReset, pageFaults>>

\* One refresh at a time; one asked for meanwhile follows.
refreshLiveContent(v) ==
    /\ refresh[v].due /\ fetch[v].pc = "idle"
    /\ refresh' = [refresh EXCEPT ![v].due = FALSE]
    /\ needed' = [needed EXCEPT ![v] = refresh[v].heard]
    /\ fetch' = [fetch EXCEPT ![v].pc = "lookup"]
    /\ UNCHANGED <<pageChanges, updates, handler, cacheVars, page, hubVars, genReset, pageFaults>>

\* The stream is closed; EventSource connects again.
Unregister(v) ==
    /\ stream[v] # NotListening /\ PageFault
    /\ stream' = [stream EXCEPT ![v] = NotListening]
    /\ UNCHANGED <<pageChanges, updates, handler, cacheVars, viewerVars, window, trailing, genReset>>

PageNext ==
    \/ \E urgent, lost \in BOOLEAN : PageChanges(urgent, lost)
    \/ SkipEvent \/ resolveAffectedSlugs \/ InvalidateEntry \/ Forget \/ Fire \/ flush
    \/ ResetGenerations \/ EntryExpires
    \/ \E v \in Viewers :
          \/ Lookup(v) \/ Do(v) \/ LookupAgain(v) \/ Build(v) \/ storeIfCurrent(v)
          \/ OpenPage(v) \/ Register(v) \/ scheduleRefresh(v) \/ refreshLiveContent(v) \/ Unregister(v)

PageSpec == PageInit /\ [][PageNext]_pageVars

-----------------------------------------------------------------------------
(* Properties *)

\* "a browser that refetches the page in response to the SSE event must never be
\* served stale pre-event HTML": not from the cache, not from a build that began
\* before the event, not from a flight it joined; a broadcast may be delayed,
\* coalesced or dropped meanwhile.  The documented exception is a reset of the
\* generations at their cap.
RefetchIsFresh ==
    \A v \in Viewers :
        fetch[v].pc = "idle" /\ page[v] # NoPage /\ ~genReset => page[v] >= needed[v]
===============================================================================
