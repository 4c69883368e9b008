--------------------------- MODULE StatusPageProofs ---------------------------
(***************************************************************************)
(* Theorems about the status pages: StatusPageCache for every number of    *)
(* browsers, changes and lost events; StatusPush for every number of       *)
(* replicas, browsers and transitions, and every debounce, horizon, claim  *)
(* age and retention that PushAssumption allows.                           *)
(***************************************************************************)
EXTENDS StatusPageCache, StatusPush, SequenceTheorems, TLAPS

-----------------------------------------------------------------------------
(* The render cache: the inductive invariant.                              *)

Flies(v) == fetch[v].pc \in {"again", "build", "store"}

\* Who leads and who joined which flight.
Flights ==
    /\ \A v \in Viewers :
          /\ fetch[v].pc \in {"idle", "lookup", "do"} => fetch[v].leader = Nobody
          /\ Flies(v) => fetch[v].leader = v
          /\ fetch[v].pc = "wait" => fetch[v].leader \in Viewers /\ Flies(fetch[v].leader)
          /\ fetch[v].gen <= gens
    /\ group # Nobody => Flies(group)

\* Every change an event was or is about to be broadcast for, or a browser heard
\* of, is at most c.
ToldUpTo(c) ==
    /\ handler.pc = "fire" => handler.change <= c
    /\ trailing = NoPage \/ trailing <= c
    /\ \A v \in Viewers :
          /\ stream[v] = NotListening \/ \A i \in DOMAIN stream[v] : stream[v][i] <= c
          /\ refresh[v].heard <= c /\ needed[v] <= c

\* The cache, and a build that will enter it, show change c.
CacheShows(c) ==
    /\ cached >= c
    /\ \A v \in Viewers : fetch[v].pc = "store" /\ fetch[v].gen = gens => fetch[v].html >= c

\* The flight a browser can join shows change c.
FlightShows(c) ==
    \A v \in Viewers : fetch[v].pc = "store" /\ group = v => fetch[v].html >= c

\* A flight that was built answers what every browser waiting for it needs; what
\* a browser shows once its request has ended is what it needed.
Served ==
    \A v \in Viewers :
        /\ fetch[v].pc = "idle" => page[v] >= needed[v]
        /\ fetch[v].pc = "store" =>
              /\ fetch[v].html <= pageChanges
              /\ \A w \in Viewers : fetch[w].leader = v => fetch[v].html >= needed[w]

\* The changes on their way: none is ahead of the database.
Pending ==
    /\ handler.change <= pageChanges
    /\ \A i \in DOMAIN updates : updates[i].change <= pageChanges

\* Between the removal of the entry and Forget the cache is already clean.
Cleaned == handler.pc = "forget" => CacheShows(handler.change)

TellsAfter(c) ==
    c <= pageChanges /\ ToldUpTo(c) /\ CacheShows(c) /\ FlightShows(c)

Coherent ==
    /\ Flights /\ Served /\ Pending /\ Cleaned
    /\ \E c \in 0..MaxPageChanges : TellsAfter(c)

PageInv == genReset \/ Coherent

-----------------------------------------------------------------------------
(* Types.                                                                  *)

LEMMA ContentType ==
    /\ NoPage \in Nat /\ Content \subseteq Nat /\ NoPage \in Content
    /\ 0..MaxPageChanges \subseteq Content /\ \A x \in Content : x <= NoPage
    /\ \A x \in Content : x # NoPage => x \in 0..MaxPageChanges
    /\ \A x \in 0..MaxPageChanges : x # NoPage /\ x < NoPage
BY PageAssumption DEF NoPage, Content

LEMMA NoFetchType == NoFetch \in Request
BY ContentType, SMTT(30) DEF NoFetch, Request

\* A request goes on.
LEMMA RequestType ==
    ASSUME PageTypeOK, NEW v \in Viewers
    PROVE  /\ [fetch EXCEPT ![v].pc = "lookup"] \in [Viewers -> Request]
           /\ [fetch EXCEPT ![v].pc = "do"] \in [Viewers -> Request]
           /\ \A l \in Viewers :
                 /\ [fetch EXCEPT ![v] = [@ EXCEPT !.pc = "wait", !.leader = l]] \in [Viewers -> Request]
                 /\ [fetch EXCEPT ![v] = [@ EXCEPT !.pc = "again", !.leader = l]] \in [Viewers -> Request]
           /\ [fetch EXCEPT ![v] = [@ EXCEPT !.pc = "build", !.gen = gens]] \in [Viewers -> Request]
           /\ [fetch EXCEPT ![v] = [@ EXCEPT !.pc = "store", !.html = pageChanges]] \in [Viewers -> Request]
           /\ [fetch EXCEPT ![v] = NoFetch] \in [Viewers -> Request]
<1>1. fetch \in [Viewers -> Request] /\ fetch[v] \in Request /\ gens \in Nat /\ pageChanges \in Content
  BY ContentType DEF PageTypeOK
<1>2. \A q \in Request : [fetch EXCEPT ![v] = q] \in [Viewers -> Request]
  BY <1>1
<1>3. /\ [fetch[v] EXCEPT !.pc = "lookup"] \in Request
      /\ [fetch[v] EXCEPT !.pc = "do"] \in Request
      /\ \A l \in Viewers : /\ [fetch[v] EXCEPT !.pc = "wait", !.leader = l] \in Request
                            /\ [fetch[v] EXCEPT !.pc = "again", !.leader = l] \in Request
      /\ [fetch[v] EXCEPT !.pc = "build", !.gen = gens] \in Request
      /\ [fetch[v] EXCEPT !.pc = "store", !.html = pageChanges] \in Request
  BY <1>1 DEF Request
<1> QED BY <1>2, <1>3, NoFetchType

\* A broadcast adds one event to some of the streams.
LEMMA BroadcastType ==
    ASSUME PageTypeOK, NEW c \in Content
    PROVE  /\ Broadcast(c) \in [Viewers -> Seq(Content)]
           /\ \A v \in Viewers : \/ Broadcast(c)[v] = stream[v]
                                 \/ /\ stream[v] # NotListening
                                    /\ Broadcast(c)[v] = Append(stream[v], c)
<1>1. \A v \in Viewers : stream[v] \in Seq(Content) /\ Append(stream[v], c) \in Seq(Content)
  BY DEF PageTypeOK
<1> QED BY <1>1 DEF Broadcast

LEMMA LandsType ==
    ASSUME PageTypeOK, NEW v \in Viewers, NEW html \in Content, Lands(v, html)
    PROVE  fetch' \in [Viewers -> Request] /\ page' \in [Viewers -> Content]
           /\ group' \in Viewers \cup {Nobody}
BY NoFetchType DEF Lands, PageTypeOK

\* The event at the head of the queue.
LEMMA HeadType ==
    ASSUME PageTypeOK, updates # <<>>
    PROVE  /\ Head(updates) = updates[1] /\ 1 \in DOMAIN updates
           /\ Head(updates).change \in 1..MaxPageChanges /\ Head(updates).urgent \in BOOLEAN
           /\ Tail(updates) \in Seq(Updates)
           /\ \A i \in DOMAIN Tail(updates) : /\ i + 1 \in DOMAIN updates
                                              /\ Tail(updates)[i] = updates[i + 1]
<1>1. updates \in Seq(Updates)
  BY DEF PageTypeOK
<1>2. Head(updates) \in Updates /\ Tail(updates) \in Seq(Updates) /\ Head(updates) = updates[1]
  BY <1>1, HeadTailProperties
<1>3. 1 \in DOMAIN updates
  BY <1>1, EmptySeq
<1>4. \A i \in DOMAIN Tail(updates) : i + 1 \in DOMAIN updates /\ Tail(updates)[i] = updates[i + 1]
  BY <1>1
<1> QED BY <1>2, <1>3, <1>4 DEF Updates

LEMMA PageTypeStep ==
    ASSUME PageTypeOK, [PageNext]_pageVars
    PROVE  PageTypeOK'
<1> USE ContentType DEF cacheVars, viewerVars, hubVars
<1>1. ASSUME NEW urgent \in BOOLEAN, NEW lost \in BOOLEAN, PageChanges(urgent, lost)
      PROVE  PageTypeOK'
  <2>1. pageChanges' \in 0..MaxPageChanges /\ pageChanges + 1 \in 1..MaxPageChanges
    BY <1>1, PageAssumption DEF PageChanges, PageTypeOK
  <2>2. [change |-> pageChanges + 1, urgent |-> urgent] \in Updates
    BY <2>1 DEF Updates
  <2>3. updates' \in Seq(Updates)
    <3>1. updates \in Seq(Updates)
      BY DEF PageTypeOK
    <3> QED BY <1>1, <2>2, <3>1, AppendProperties DEF PageChanges
  <2>4. pageFaults' \in Nat
    BY <1>1 DEF PageChanges, PageFault, PageTypeOK
  <2> QED BY <1>1, <2>1, <2>3, <2>4 DEF PageChanges, PageTypeOK
<1>2. CASE SkipEvent
  BY <1>2, HeadType DEF SkipEvent, PageTypeOK
<1>3. CASE resolveAffectedSlugs
  <2>1. updates' \in Seq(Updates)
    BY <1>3, HeadType DEF resolveAffectedSlugs
  <2>2. handler' \in [pc : {"idle", "invalidate", "forget", "fire"},
                      change : 0..MaxPageChanges, urgent : BOOLEAN]
    <3>1. Head(updates).change \in 0..MaxPageChanges /\ Head(updates).urgent \in BOOLEAN
      BY <1>3, HeadType, PageAssumption DEF resolveAffectedSlugs
    <3> QED BY <1>3, <3>1 DEF resolveAffectedSlugs, PageTypeOK
  <2>3. pageFaults' \in Nat
    BY <1>3 DEF resolveAffectedSlugs, PageFault, PageTypeOK
  <2> QED BY <1>3, <2>1, <2>2, <2>3 DEF resolveAffectedSlugs, PageTypeOK
<1>4. CASE InvalidateEntry
  <2>1. handler' \in [pc : {"idle", "invalidate", "forget", "fire"},
                      change : 0..MaxPageChanges, urgent : BOOLEAN]
    BY <1>4 DEF InvalidateEntry, PageTypeOK
  <2>2. gens' \in Nat
    BY <1>4 DEF InvalidateEntry, PageTypeOK
  <2> QED BY <1>4, <2>1, <2>2 DEF InvalidateEntry, PageTypeOK
<1>5. CASE Forget
  BY <1>5 DEF Forget, Forgets, PageTypeOK
<1>6. CASE Fire
  <2>1. handler.change \in Content /\ handler' \in [pc : {"idle", "invalidate", "forget", "fire"},
                      change : 0..MaxPageChanges, urgent : BOOLEAN]
    BY <1>6 DEF Fire, PageTypeOK
  <2>2. stream' \in [Viewers -> Seq(Content)] /\ window' \in BOOLEAN /\ trailing' \in Content
    BY <1>6, <2>1, BroadcastType DEF Fire, PageTypeOK
  <2> QED BY <1>6, <2>1, <2>2 DEF Fire, PageTypeOK
<1>7. CASE flush
  <2>1. stream' \in [Viewers -> Seq(Content)] /\ window' \in BOOLEAN /\ trailing' \in Content
    <3>1. trailing \in Content
      BY DEF PageTypeOK
    <3> QED BY <1>7, <3>1, BroadcastType DEF flush, PageTypeOK
  <2> QED BY <1>7, <2>1 DEF flush, PageTypeOK
<1>8. CASE ResetGenerations \/ EntryExpires
  <2>1. CASE ResetGenerations
    <3>1. pageFaults' \in Nat
      BY <2>1 DEF ResetGenerations, PageFault, PageTypeOK
    <3> QED BY <2>1, <3>1 DEF ResetGenerations, PageTypeOK
  <2>2. CASE EntryExpires
    BY <2>2 DEF EntryExpires, PageTypeOK
  <2> QED BY <1>8, <2>1, <2>2
<1>9. ASSUME NEW v \in Viewers, Lookup(v) \/ Do(v)
      PROVE  PageTypeOK'
  <2>1. fetch' \in [Viewers -> Request]
    <3>1. CASE Lookup(v)
      BY <3>1, RequestType, ZenonT(60) DEF Lookup
    <3>2. CASE Do(v)
      <4>1. group # Nobody => group \in Viewers
        BY DEF PageTypeOK
      <4>2. \/ group \in Viewers /\ fetch' = [fetch EXCEPT ![v] = [@ EXCEPT !.pc = "wait", !.leader = group]]
            \/ fetch' = [fetch EXCEPT ![v] = [@ EXCEPT !.pc = "again", !.leader = v]]
        BY <3>2, <4>1 DEF Do
      <4>3. /\ [fetch EXCEPT ![v] = [@ EXCEPT !.pc = "again", !.leader = v]] \in [Viewers -> Request]
            /\ group \in Viewers =>
                  [fetch EXCEPT ![v] = [@ EXCEPT !.pc = "wait", !.leader = group]] \in [Viewers -> Request]
        BY RequestType
      <4> QED BY <4>2, <4>3
    <3> QED BY <1>9, <3>1, <3>2
  <2>2. page' \in [Viewers -> Content] /\ group' \in Viewers \cup {Nobody}
    BY <1>9 DEF Lookup, Do, Shows, PageTypeOK
  <2> QED BY <1>9, <2>1, <2>2 DEF Lookup, Do, GetKept, PageTypeOK
<1>10. ASSUME NEW v \in Viewers, LookupAgain(v)
       PROVE  PageTypeOK'
  <2>1. /\ fetch' \in [Viewers -> Request] /\ page' \in [Viewers -> Content]
        /\ group' \in Viewers \cup {Nobody}
    <3>1. CASE cached # NoPage
      BY <1>10, <3>1, LandsType, SMTT(30) DEF LookupAgain, PageTypeOK
    <3>2. CASE cached = NoPage
      <4>1. /\ fetch' = [fetch EXCEPT ![v] = [@ EXCEPT !.pc = "build", !.gen = gens]]
            /\ UNCHANGED <<page, group>>
        BY <1>10, <3>2 DEF LookupAgain
      <4> QED BY <4>1, RequestType DEF PageTypeOK
    <3> QED BY <3>1, <3>2
  <2> QED BY <1>10, <2>1 DEF LookupAgain, GetKept, PageTypeOK
<1>11. ASSUME NEW v \in Viewers, Build(v)
       PROVE  PageTypeOK'
  <2>1. /\ fetch' \in [Viewers -> Request] /\ page' \in [Viewers -> Content]
        /\ group' \in Viewers \cup {Nobody}
    <3>1. CASE Lands(v, NoPage)
      BY <3>1, LandsType
    <3>2. CASE ~Lands(v, NoPage)
      <4>1. /\ fetch' = [fetch EXCEPT ![v] = [@ EXCEPT !.pc = "store", !.html = pageChanges]]
            /\ UNCHANGED <<page, group>>
        BY <1>11, <3>2 DEF Build
      <4> QED BY <4>1, RequestType DEF PageTypeOK
    <3> QED BY <3>1, <3>2
  <2>2. needed' \in [Viewers -> Content] /\ pageFaults' \in Nat
    <3>1. 0 \in Content
      BY PageAssumption DEF Content, NoPage
    <3>2. needed' = needed \/ needed' = [w \in Viewers |-> IF fetch[w].leader = v THEN 0 ELSE needed[w]]
      BY <1>11 DEF Build
    <3>3. needed' \in [Viewers -> Content]
      BY <3>1, <3>2 DEF PageTypeOK
    <3>4. pageFaults' = pageFaults \/ pageFaults' = pageFaults + 1
      BY <1>11 DEF Build, PageFault
    <3> QED BY <3>3, <3>4 DEF PageTypeOK
  <2> QED BY <1>11, <2>1, <2>2 DEF Build, PageTypeOK
<1>12. ASSUME NEW v \in Viewers, storeIfCurrent(v)
       PROVE  PageTypeOK'
  <2>1. fetch[v].html \in Content
    BY DEF PageTypeOK, Request
  <2>2. /\ fetch' \in [Viewers -> Request] /\ page' \in [Viewers -> Content]
        /\ group' \in Viewers \cup {Nobody}
    BY <1>12, <2>1, LandsType DEF storeIfCurrent
  <2>3. cached' \in Content
    BY <1>12, <2>1 DEF storeIfCurrent, PageTypeOK
  <2> QED BY <1>12, <2>2, <2>3 DEF storeIfCurrent, GetKept, PageTypeOK
<1>13. ASSUME NEW v \in Viewers, OpenPage(v) \/ Register(v) \/ Unregister(v)
       PROVE  PageTypeOK'
  <2>1. NotListening \in Seq(Content) /\ <<>> \in Seq(Content)
    BY DEF NotListening
  <2>2. fetch' \in [Viewers -> Request]
    <3>1. fetch' = [fetch EXCEPT ![v].pc = "lookup"] \/ fetch' = fetch
      BY <1>13 DEF OpenPage, Register, Unregister
    <3>2. fetch \in [Viewers -> Request]
      BY DEF PageTypeOK
    <3> QED BY <3>1, <3>2, RequestType
  <2>3. stream' \in [Viewers -> Seq(Content)] /\ pageFaults' \in Nat
    <3>1. \/ stream' = [stream EXCEPT ![v] = NotListening]
          \/ stream' = [stream EXCEPT ![v] = <<>>] \/ stream' = stream
      BY <1>13 DEF OpenPage, Register, Unregister
    <3>2. \A x \in Seq(Content) : [stream EXCEPT ![v] = x] \in [Viewers -> Seq(Content)]
      BY DEF PageTypeOK
    <3>3. pageFaults' = pageFaults \/ pageFaults' = pageFaults + 1
      BY <1>13 DEF OpenPage, Register, Unregister, PageFault
    <3>4. stream \in [Viewers -> Seq(Content)] /\ pageFaults \in Nat
      BY DEF PageTypeOK
    <3> HIDE DEF NotListening
    <3>5. stream' \in [Viewers -> Seq(Content)]
      BY <2>1, <3>1, <3>2, <3>4
    <3> QED BY <3>3, <3>4, <3>5
  <2> QED BY <1>13, <2>2, <2>3 DEF OpenPage, Register, Unregister, PageTypeOK
<1>14. ASSUME NEW v \in Viewers, scheduleRefresh(v) \/ refreshLiveContent(v)
       PROVE  PageTypeOK'
  <2>1. stream[v] # <<>> => Head(stream[v]) \in Content /\ Tail(stream[v]) \in Seq(Content)
    BY HeadTailProperties DEF PageTypeOK
  <2>2. /\ refresh' \in [Viewers -> [due : BOOLEAN, heard : Content]]
        /\ stream' \in [Viewers -> Seq(Content)]
    <3>1. \A b \in BOOLEAN : \A x \in Content :
              /\ [refresh EXCEPT ![v].due = b] \in [Viewers -> [due : BOOLEAN, heard : Content]]
              /\ [refresh EXCEPT ![v] = [due |-> b, heard |-> x]]
                     \in [Viewers -> [due : BOOLEAN, heard : Content]]
      BY DEF PageTypeOK
    <3>2. \A x \in Seq(Content) : [stream EXCEPT ![v] = x] \in [Viewers -> Seq(Content)]
      BY DEF PageTypeOK
    <3>3. CASE scheduleRefresh(v)
      BY <2>1, <3>1, <3>2, <3>3 DEF scheduleRefresh
    <3>4. CASE refreshLiveContent(v)
      BY <3>1, <3>4 DEF refreshLiveContent, PageTypeOK
    <3> QED BY <1>14, <3>3, <3>4
  <2>3. needed' \in [Viewers -> Content] /\ fetch' \in [Viewers -> Request]
    <3>1. refresh[v].heard \in Content
      BY DEF PageTypeOK
    <3>2. \A x \in Content : [needed EXCEPT ![v] = x] \in [Viewers -> Content]
      BY DEF PageTypeOK
    <3>3. CASE scheduleRefresh(v)
      BY <3>3, SMTT(30) DEF scheduleRefresh, PageTypeOK
    <3>4. CASE refreshLiveContent(v)
      BY <3>1, <3>2, <3>4, RequestType DEF refreshLiveContent
    <3> QED BY <1>14, <3>3, <3>4
  <2> QED BY <1>14, <2>2, <2>3 DEF scheduleRefresh, refreshLiveContent, PageTypeOK
<1>15. CASE UNCHANGED pageVars
  BY <1>15 DEF pageVars, PageTypeOK
<1> QED BY <1>1, <1>2, <1>3, <1>4, <1>5, <1>6, <1>7, <1>8, <1>9, <1>10, <1>11, <1>12, <1>13,
           <1>14, <1>15 DEF PageNext

LEMMA PageTypeInit == PageInit => PageTypeOK
<1>1. NotListening \in Seq(Content) /\ 0 \in Content /\ 0 \in 0..MaxPageChanges
  BY ContentType, PageAssumption DEF NotListening, Content
<1>2. <<>> \in Seq(Updates)
  OBVIOUS
<1>3. <<NoPage>> \in Seq(Content)
  BY ContentType
<1> SUFFICES ASSUME PageInit PROVE PageTypeOK
  OBVIOUS
<1>4. stream \in [Viewers -> Seq(Content)] /\ updates \in Seq(Updates)
  BY <1>1, <1>2 DEF PageInit
<1>5. handler \in [pc : {"idle", "invalidate", "forget", "fire"},
                  change : 0..MaxPageChanges, urgent : BOOLEAN]
  BY <1>1 DEF PageInit
<1>6. fetch \in [Viewers -> Request]
  BY NoFetchType DEF PageInit
<1>7. refresh \in [Viewers -> [due : BOOLEAN, heard : Content]]
  BY <1>1 DEF PageInit
<1>8. /\ page \in [Viewers -> Content] /\ needed \in [Viewers -> Content]
      /\ pageChanges \in 0..MaxPageChanges /\ cached \in Content /\ trailing \in Content
  BY <1>1, ContentType DEF PageInit
<1> QED BY <1>4, <1>5, <1>6, <1>7, <1>8 DEF PageInit, PageTypeOK

\* The type of every variable of the page, its cache and its browsers.
THEOREM PageTypeCorrect == PageSpec => []PageTypeOK
<1>1. PageTypeOK /\ [PageNext]_pageVars => PageTypeOK'
  BY PageTypeStep
<1> QED BY <1>1, PageTypeInit, PTL DEF PageSpec

-----------------------------------------------------------------------------
(* Refetches are fresh.                                                    *)

\* The numbers of the state, for arithmetic.
LEMMA PageNumbers ==
    ASSUME PageTypeOK
    PROVE  /\ pageChanges \in Nat /\ cached \in Nat /\ gens \in Nat /\ trailing \in Nat
           /\ handler.change \in Nat
           /\ \A v \in Viewers : /\ fetch[v].gen \in Nat /\ fetch[v].html \in Nat
                                 /\ page[v] \in Nat /\ needed[v] \in Nat /\ refresh[v].heard \in Nat
                                 /\ fetch[v] \in Request
           /\ \A i \in DOMAIN updates : updates[i].change \in Nat
<1>1. updates \in Seq(Updates)
  BY DEF PageTypeOK
<1>2. \A i \in DOMAIN updates : updates[i] \in Updates
  BY <1>1
<1>3. \A i \in DOMAIN updates : updates[i].change \in Nat
  BY <1>2, PageAssumption DEF Updates
<1> QED BY <1>3, ContentType, PageAssumption DEF PageTypeOK, Request

\* The invariant says what it says of these variables alone.
LEMMA FlightsFrame == Flights /\ UNCHANGED <<fetch, gens, group>> => Flights'
BY DEF Flights, Flies

LEMMA ServedFrame == Served /\ UNCHANGED <<fetch, page, needed, pageChanges>> => Served'
BY DEF Served

LEMMA PendingFrame == Pending /\ UNCHANGED <<handler, updates, pageChanges>> => Pending'
BY DEF Pending

LEMMA CleanedFrame == Cleaned /\ UNCHANGED <<handler, cached, fetch, gens>> => Cleaned'
BY DEF Cleaned, CacheShows

LEMMA ToldFrame ==
    ASSUME NEW c, ToldUpTo(c), UNCHANGED <<handler, trailing, stream, refresh, needed>>
    PROVE  ToldUpTo(c)'
BY DEF ToldUpTo

LEMMA ShowsFrame ==
    ASSUME NEW c, CacheShows(c), FlightShows(c), UNCHANGED <<cached, fetch, gens, group>>
    PROVE  CacheShows(c)' /\ FlightShows(c)'
BY DEF CacheShows, FlightShows

\* Each step below keeps the invariant with c as witness, except Forget, which
\* announces a change.
LEMMA ChangeCoherent ==
    ASSUME PageTypeOK, Coherent, NEW urgent \in BOOLEAN, NEW lost \in BOOLEAN, PageChanges(urgent, lost)
    PROVE  Coherent'
<1> USE DEF cacheVars, viewerVars, hubVars
<1>0. pageChanges' = pageChanges + 1 /\ pageChanges \in Nat
  BY PageNumbers DEF PageChanges
<1>1. UNCHANGED <<handler, cached, gens, group, fetch, page, refresh, needed, stream, window, trailing>>
  BY DEF PageChanges
<1>2. Flights' /\ Cleaned'
  BY <1>1, FlightsFrame, CleanedFrame DEF Coherent
<1>3. Served'
  <2>1. \A v \in Viewers : fetch[v].html \in Nat
    BY PageNumbers
  <2> QED BY <1>0, <1>1, <2>1 DEF Coherent, Served
<1>4. Pending'
  <2>1. handler.change <= pageChanges'
    BY <1>0, PageNumbers DEF Coherent, Pending
  <2>2. \A i \in DOMAIN updates : updates[i].change <= pageChanges'
    BY <1>0, PageNumbers DEF Coherent, Pending
  <2>3. updates' = updates \/ updates' = Append(updates, [change |-> pageChanges + 1, urgent |-> urgent])
    BY DEF PageChanges
  <2>4. \A i \in DOMAIN updates' : updates'[i].change <= pageChanges'
    <3>1. CASE updates' = updates
      BY <2>2, <3>1
    <3>2. CASE updates' = Append(updates, [change |-> pageChanges + 1, urgent |-> urgent])
      <4>1. updates \in Seq(Updates)
        BY DEF PageTypeOK
      <4>2. \A i \in DOMAIN updates' : \/ i \in DOMAIN updates /\ updates'[i] = updates[i]
                                       \/ updates'[i] = [change |-> pageChanges + 1, urgent |-> urgent]
        BY <3>2, <4>1
      <4>3. \A i \in DOMAIN updates' : \/ i \in DOMAIN updates /\ updates'[i].change = updates[i].change
                                       \/ updates'[i].change = pageChanges + 1
        BY <4>2
      <4> QED BY <1>0, <2>2, <4>3
    <3> QED BY <2>3, <3>1, <3>2
  <2> QED BY <1>1, <2>1, <2>4 DEF Pending
<1>5. PICK c \in 0..MaxPageChanges : TellsAfter(c)
  BY DEF Coherent
<1>6. TellsAfter(c)'
  BY <1>0, <1>1, <1>5, ToldFrame, ShowsFrame DEF TellsAfter
<1> QED BY <1>2, <1>3, <1>4, <1>6 DEF Coherent

\* The subscriber takes an event, or drops it.
LEMMA TakeCoherent ==
    ASSUME PageTypeOK, Coherent, SkipEvent \/ resolveAffectedSlugs
    PROVE  Coherent'
<1> USE DEF cacheVars, viewerVars, hubVars
<1>1. UNCHANGED <<pageChanges, cached, gens, group, fetch, page, refresh, needed, stream, window, trailing>>
  BY DEF SkipEvent, resolveAffectedSlugs
<1>2. updates # <<>> /\ updates' = Tail(updates)
  BY DEF SkipEvent, resolveAffectedSlugs
<1>3. \/ handler' = handler
      \/ handler' = [pc |-> "invalidate", change |-> Head(updates).change, urgent |-> Head(updates).urgent]
  BY DEF SkipEvent, resolveAffectedSlugs
<1>4. \/ handler' = handler
      \/ handler'.pc = "invalidate" /\ handler'.change = Head(updates).change
  BY <1>3
<1>5. Flights' /\ Served'
  BY <1>1, FlightsFrame, ServedFrame DEF Coherent
<1>6. Cleaned'
  <2>1. CASE handler' = handler
    BY <1>1, <2>1, CleanedFrame DEF Coherent
  <2>2. CASE handler'.pc = "invalidate"
    BY <2>2 DEF Cleaned
  <2> QED BY <1>4, <2>1, <2>2
<1>7. Pending'
  <2>1. Head(updates).change <= pageChanges
    BY <1>2, HeadType DEF Coherent, Pending
  <2>2. handler'.change <= pageChanges
    BY <1>4, <2>1 DEF Coherent, Pending
  <2>3. \A i \in DOMAIN updates' : updates'[i].change <= pageChanges
    BY <1>2, HeadType DEF Coherent, Pending
  <2> QED BY <1>1, <2>2, <2>3 DEF Pending
<1>8. PICK c \in 0..MaxPageChanges : TellsAfter(c)
  BY DEF Coherent
<1>9. ToldUpTo(c)'
  <2>1. handler'.pc = "fire" => handler' = handler
    BY <1>4
  <2> QED BY <1>1, <1>8, <2>1 DEF TellsAfter, ToldUpTo
<1>10. TellsAfter(c)'
  BY <1>1, <1>8, <1>9, ShowsFrame DEF TellsAfter
<1> QED BY <1>5, <1>6, <1>7, <1>10 DEF Coherent

\* Invalidate, first half: no build that began before can enter the cache.
LEMMA InvalidateCoherent ==
    ASSUME PageTypeOK, Coherent, InvalidateEntry
    PROVE  Coherent'
<1> USE DEF cacheVars, viewerVars, hubVars
<1>1. /\ UNCHANGED <<pageChanges, updates, group, fetch, page, refresh, needed, stream, window, trailing>>
      /\ cached' = NoPage /\ gens' = gens + 1
  BY DEF InvalidateEntry
<1>2. handler.pc = "invalidate" /\ handler'.pc = "forget" /\ handler'.change = handler.change
  BY DEF InvalidateEntry, PageTypeOK
<1>3. \A v \in Viewers : fetch[v].gen <= gens /\ fetch[v].gen # gens + 1 /\ fetch[v].gen <= gens + 1
  BY PageNumbers DEF Coherent, Flights
<1>4. Flights'
  BY <1>1, <1>3 DEF Coherent, Flights, Flies
<1>5. Served' /\ Pending'
  BY <1>1, <1>2, ServedFrame DEF Coherent, Pending
<1>6. ASSUME NEW c \in 0..MaxPageChanges
      PROVE  CacheShows(c)'
  BY <1>1, <1>3, ContentType DEF CacheShows
<1>7. handler.change \in 0..MaxPageChanges
  BY DEF PageTypeOK
<1>8. Cleaned'
  BY <1>2, <1>6, <1>7, <1>1, <1>3, ContentType DEF Cleaned, CacheShows
<1>9. PICK c \in 0..MaxPageChanges : TellsAfter(c)
  BY DEF Coherent
<1>10. ToldUpTo(c)' /\ FlightShows(c)' /\ CacheShows(c)'
  BY <1>1, <1>2, <1>6, <1>9 DEF TellsAfter, ToldUpTo, FlightShows
<1> QED BY <1>1, <1>4, <1>5, <1>8, <1>9, <1>10 DEF Coherent, TellsAfter

\* Invalidate, second half: no flight that began before can be joined; from now
\* on the change may be told.
LEMMA ForgetCoherent ==
    ASSUME PageTypeOK, Coherent, Forget
    PROVE  Coherent'
<1> USE DEF cacheVars, viewerVars, hubVars
<1>1. /\ UNCHANGED <<pageChanges, updates, cached, gens, fetch, page, refresh, needed, stream, window, trailing>>
      /\ group' = Nobody
  BY DEF Forget, Forgets
<1>2. handler.pc = "forget" /\ handler'.pc \in {"fire", "idle"} /\ handler'.change = handler.change
  BY DEF Forget, PageTypeOK
<1>3. Flights' /\ Served' /\ Pending' /\ Cleaned'
  <2>1. Flights'
    BY <1>1 DEF Coherent, Flights, Flies
  <2>2. Served' /\ Pending'
    BY <1>1, <1>2, ServedFrame DEF Coherent, Pending
  <2>3. Cleaned'
    BY <1>2 DEF Cleaned
  <2> QED BY <2>1, <2>2, <2>3
<1>4. PICK c \in 0..MaxPageChanges : TellsAfter(c)
  BY DEF Coherent
<1>5. \A v \in Viewers : v # Nobody
  BY PageAssumption DEF Nobody
<1>6. PICK h \in 0..MaxPageChanges : /\ h = handler.change /\ h <= pageChanges /\ CacheShows(h)
                                    /\ CacheShows(c) /\ c <= pageChanges
  BY <1>2, <1>4 DEF Coherent, Pending, Cleaned, TellsAfter, PageTypeOK
<1>7. PICK d \in 0..MaxPageChanges : d <= pageChanges /\ CacheShows(d) /\ h <= d /\ c <= d
  <2>1. CASE h > c
    BY <1>6, <2>1
  <2>2. CASE ~(h > c)
    BY <1>6, <2>2
  <2> QED BY <2>1, <2>2
<1>8. ToldUpTo(d)'
  <2>1. ToldUpTo(c)
    BY <1>4 DEF TellsAfter
  <2>2. trailing' = NoPage \/ trailing' <= d
    BY <1>1, <1>7, <2>1, PageNumbers DEF ToldUpTo
  <2>3. \A v \in Viewers : refresh[v].heard <= d /\ needed[v] <= d
    BY <1>7, <2>1, PageNumbers DEF ToldUpTo
  <2>4. ASSUME NEW v \in Viewers, stream[v] # NotListening, NEW k \in DOMAIN stream[v]
        PROVE  stream[v][k] <= d
    <3>1. stream[v][k] <= c
      BY <2>1, <2>4 DEF ToldUpTo
    <3>2. stream[v] \in Seq(Content)
      BY DEF PageTypeOK
    <3>3. stream[v][k] \in Nat
      <4>1. stream[v][k] \in Content
        BY <2>4, <3>2, ElementOfSeq
      <4> QED BY <4>1, ContentType
    <3> QED BY <1>7, <3>1, <3>3
  <2>5. handler'.change <= d
    BY <1>2, <1>6, <1>7
  <2> QED BY <1>1, <2>2, <2>3, <2>4, <2>5 DEF ToldUpTo
<1>9. CacheShows(d)' /\ FlightShows(d)'
  BY <1>1, <1>5, <1>7 DEF CacheShows, FlightShows
<1>10. TellsAfter(d)'
  BY <1>1, <1>7, <1>8, <1>9 DEF TellsAfter
<1> QED BY <1>3, <1>7, <1>10 DEF Coherent

\* The change is broadcast, now or at the end of the window.
LEMMA BroadcastTells ==
    ASSUME PageTypeOK, NEW c, NEW x \in 0..MaxPageChanges, x <= c,
           \A v \in Viewers : stream[v] = NotListening \/ \A i \in DOMAIN stream[v] : stream[v][i] <= c
    PROVE  \A v \in Viewers : \/ Broadcast(x)[v] = NotListening
                              \/ \A i \in DOMAIN Broadcast(x)[v] : Broadcast(x)[v][i] <= c
<1> TAKE v \in Viewers
<1>1. x \in Content /\ stream[v] \in Seq(Content)
  BY ContentType DEF PageTypeOK
<1>2. \/ Broadcast(x)[v] = stream[v]
      \/ stream[v] # NotListening /\ Broadcast(x)[v] = Append(stream[v], x)
  BY <1>1, BroadcastType
<1>3. \A i \in DOMAIN Append(stream[v], x) :
          \/ i \in DOMAIN stream[v] /\ Append(stream[v], x)[i] = stream[v][i]
          \/ Append(stream[v], x)[i] = x
  BY <1>1
<1> HIDE DEF NotListening
<1> QED BY <1>2, <1>3

LEMMA FireCoherent ==
    ASSUME PageTypeOK, Coherent, Fire \/ flush
    PROVE  Coherent'
<1> USE DEF cacheVars, viewerVars, hubVars
<1>1. UNCHANGED <<pageChanges, updates, cached, gens, group, fetch, page, refresh, needed>>
  BY DEF Fire, flush
<1>2. (handler'.change = handler.change /\ handler'.pc # "forget") \/ handler' = handler
  BY DEF Fire, flush, PageTypeOK
<1>3. Flights' /\ Served' /\ Pending'
  BY <1>1, <1>2, FlightsFrame, ServedFrame DEF Coherent, Pending
<1>4. Cleaned'
  BY <1>1, <1>2, CleanedFrame DEF Coherent, Cleaned
<1>5. PICK c \in 0..MaxPageChanges : TellsAfter(c)
  BY DEF Coherent
<1>6. ToldUpTo(c)
  BY <1>5 DEF TellsAfter
<1>7. /\ stream' = stream \/ \E x \in 0..MaxPageChanges : x <= c /\ stream' = Broadcast(x)
      /\ trailing' = NoPage \/ trailing' <= c
      /\ handler'.pc = "fire" => handler'.change <= c
  <2>1. CASE Fire
    <3>1. handler.change \in 0..MaxPageChanges /\ handler.change <= c
      BY <1>6, <2>1 DEF Fire, ToldUpTo, PageTypeOK
    <3>2. stream' = stream \/ stream' = Broadcast(handler.change)
      BY <2>1 DEF Fire
    <3>3. trailing' = NoPage \/ trailing' = handler.change
      BY <2>1 DEF Fire
    <3>4. handler'.pc = "idle"
      BY <2>1 DEF Fire, PageTypeOK
    <3> QED BY <3>1, <3>2, <3>3, <3>4
  <2>2. CASE flush
    <3>1. trailing # NoPage => trailing \in 0..MaxPageChanges /\ trailing <= c
      BY <1>6, ContentType DEF ToldUpTo, PageTypeOK
    <3>2. stream' = stream \/ (trailing # NoPage /\ stream' = Broadcast(trailing))
      <4>1. CASE trailing = NoPage
        BY <2>2, <4>1 DEF flush
      <4>2. CASE trailing # NoPage
        BY <2>2, <4>2 DEF flush
      <4> QED BY <4>1, <4>2
    <3>3. trailing' = NoPage \/ trailing' = trailing
      BY <2>2 DEF flush
    <3>4. handler' = handler
      BY <2>2 DEF flush
    <3> QED BY <1>6, <3>1, <3>2, <3>3, <3>4 DEF ToldUpTo
  <2> QED BY <2>1, <2>2
<1>8. \A v \in Viewers : \/ stream'[v] = NotListening
                         \/ \A i \in DOMAIN stream'[v] : stream'[v][i] <= c
  <2>1. \A v \in Viewers : stream[v] = NotListening \/ \A i \in DOMAIN stream[v] : stream[v][i] <= c
    BY <1>6 DEF ToldUpTo
  <2> QED BY <1>7, <2>1, BroadcastTells
<1>9. ToldUpTo(c)'
  BY <1>1, <1>6, <1>7, <1>8 DEF ToldUpTo
<1> QED BY <1>1, <1>3, <1>4, <1>5, <1>9, ShowsFrame DEF Coherent, TellsAfter

LEMMA ExpireCoherent ==
    ASSUME PageTypeOK, Coherent, EntryExpires
    PROVE  Coherent'
<1> USE DEF cacheVars, viewerVars, hubVars
<1>1. /\ UNCHANGED <<pageChanges, updates, handler, gens, group, fetch, page, refresh, needed,
                     stream, window, trailing>>
      /\ cached' = NoPage
  BY DEF EntryExpires
<1>2. Flights' /\ Served' /\ Pending'
  BY <1>1, FlightsFrame, ServedFrame, PendingFrame DEF Coherent
<1>3. \A c \in 0..MaxPageChanges : CacheShows(c) => CacheShows(c)'
  BY <1>1, ContentType DEF CacheShows
<1>4. handler.change \in 0..MaxPageChanges
  BY DEF PageTypeOK
<1>5. Cleaned'
  BY <1>1, <1>3, <1>4 DEF Coherent, Cleaned, CacheShows
<1>6. PICK c \in 0..MaxPageChanges : TellsAfter(c)
  BY DEF Coherent
<1>7. TellsAfter(c)'
  BY <1>1, <1>3, <1>6, ToldFrame DEF TellsAfter, FlightShows
<1> QED BY <1>2, <1>5, <1>7 DEF Coherent

\* A flight ends with content: everyone on it gets what he needed, the others
\* keep their flights.
LEMMA LandsCoherent ==
    ASSUME PageTypeOK, Coherent, NEW v \in Viewers, Flies(v), NEW html \in Content,
           html # NoPage, \A w \in Viewers : fetch[w].leader = v => html >= needed[w],
           Lands(v, html), UNCHANGED <<pageChanges, gens, needed>>
    PROVE  /\ Flights' /\ Served'
           /\ \A w \in Viewers : fetch'[w].pc = "store" => fetch'[w] = fetch[w]
           /\ \A w \in Viewers : group' = w => group = w
<1>1. \A w \in Viewers : IF fetch[w].leader = v THEN fetch'[w] = NoFetch /\ page'[w] = html
                         ELSE fetch'[w] = fetch[w] /\ page'[w] = page[w]
  BY DEF Lands
<1>2. /\ NoFetch.pc = "idle" /\ NoFetch.leader = Nobody /\ NoFetch.gen = 0
  BY DEF NoFetch
<1>3. group' = IF group = v THEN Nobody ELSE group
  BY DEF Lands
<1>4. Nobody \notin Viewers
  BY PageAssumption DEF Nobody
<1>5. gens >= 0
  BY PageNumbers
<1>6. \A w \in Viewers : Flies(w) /\ w # v => fetch[w].leader # v
  BY DEF Coherent, Flights
<1>7. \A w \in Viewers : Flies(w) /\ w # v => fetch'[w] = fetch[w]
  BY <1>1, <1>6
<1> HIDE DEF NoFetch, Nobody, NoPage
<1>8. Flights'
  <2>1. ASSUME NEW w \in Viewers
        PROVE  /\ fetch'[w].pc \in {"idle", "lookup", "do"} => fetch'[w].leader = Nobody
               /\ Flies(w)' => fetch'[w].leader = w
               /\ (fetch[w].pc = "wait" => fetch[w].leader \in Viewers /\ Flies(fetch[w].leader))'
               /\ fetch'[w].gen <= gens
    <3>1. CASE fetch[w].leader = v
      <4>1. fetch'[w] = NoFetch
        BY <1>1, <3>1
      <4> QED BY <1>2, <1>5, <4>1 DEF Flies
    <3>2. CASE fetch[w].leader # v
      <4>1. fetch'[w] = fetch[w]
        BY <1>1, <3>2
      <4>2. fetch[w].pc = "wait" => fetch[w].leader \in Viewers /\ Flies(fetch[w].leader)
        BY DEF Coherent, Flights
      <4>3. fetch[w].pc = "wait" => fetch'[fetch[w].leader] = fetch[fetch[w].leader]
        BY <1>7, <3>2, <4>2
      <4> QED BY <4>1, <4>2, <4>3 DEF Coherent, Flights, Flies
    <3> QED BY <3>1, <3>2
  <2>2. (group # Nobody => Flies(group))'
    <3>1. group' # Nobody => group' = group /\ group # v /\ group \in Viewers /\ Flies(group)
      BY <1>3 DEF Coherent, Flights, PageTypeOK
    <3>2. group' # Nobody => fetch'[group'].pc = fetch[group].pc
      BY <1>7, <3>1
    <3> QED BY <3>1, <3>2 DEF Flies
  <2> QED BY <2>1, <2>2 DEF Flights
<1>9. Served'
  <2>1. ASSUME NEW w \in Viewers, fetch'[w].pc = "idle"
        PROVE  page'[w] >= needed'[w]
    BY <1>1, <2>1 DEF Coherent, Served
  <2>2. ASSUME NEW w \in Viewers, fetch'[w].pc = "store"
        PROVE  /\ fetch'[w].html <= pageChanges'
               /\ \A u \in Viewers : fetch'[u].leader = w => fetch'[w].html >= needed'[u]
    <3>1. fetch'[w] = fetch[w]
      BY <1>1, <1>2, <2>2
    <3>2. \A u \in Viewers : fetch'[u].leader = w => fetch[u].leader = w
      BY <1>1, <1>2, <1>4
    <3> QED BY <2>2, <3>1, <3>2 DEF Coherent, Served
  <2> QED BY <2>1, <2>2 DEF Served
<1>10. \A w \in Viewers : fetch'[w].pc = "store" => fetch'[w] = fetch[w]
  BY <1>1, <1>2
<1>11. \A w \in Viewers : group' = w => group = w
  BY <1>3, <1>4
<1> QED BY <1>8, <1>9, <1>10, <1>11

\* A step that builds nothing new and lets no build be joined.
LEMMA ShowsKeeps ==
    ASSUME NEW c, CacheShows(c), UNCHANGED <<cached, gens>>,
           \A w \in Viewers : fetch'[w].pc = "store" => fetch'[w] = fetch[w]
    PROVE  CacheShows(c)'
BY DEF CacheShows

LEMMA FlightKeeps ==
    ASSUME NEW c, FlightShows(c),
           \A w \in Viewers : fetch'[w].pc = "store" => fetch'[w] = fetch[w],
           \A w \in Viewers : group' = w /\ fetch'[w].pc = "store" => group = w
    PROVE  FlightShows(c)'
BY DEF FlightShows

\* Together: such a step keeps what is told and what the cache shows.
LEMMA RequestKeeps ==
    ASSUME PageTypeOK, Coherent, UNCHANGED <<pageChanges, updates, handler, cached, gens, trailing, stream>>,
           UNCHANGED <<refresh, needed>>,
           \A w \in Viewers : fetch'[w].pc = "store" => fetch'[w] = fetch[w],
           \A w \in Viewers : group' = w /\ fetch'[w].pc = "store" => group = w
    PROVE  /\ Pending' /\ Cleaned'
           /\ \E c \in 0..MaxPageChanges : TellsAfter(c)'
<1>1. Pending'
  BY PendingFrame DEF Coherent
<1>2. Cleaned'
  BY ShowsKeeps DEF Coherent, Cleaned, CacheShows
<1>3. PICK c \in 0..MaxPageChanges : TellsAfter(c)
  BY DEF Coherent
<1>4. TellsAfter(c)'
  BY <1>3, ToldFrame, ShowsKeeps, FlightKeeps DEF TellsAfter
<1> QED BY <1>1, <1>2, <1>4

LEMMA RequestMoves ==
    ASSUME PageTypeOK, NEW v \in Viewers
    PROVE  /\ fetch[v] \in Request
           /\ \A q : fetch' = [fetch EXCEPT ![v] = q]
                     => fetch'[v] = q /\ \A w \in Viewers : w # v => fetch'[w] = fetch[w]
BY DEF PageTypeOK

LEMMA LookupCoherent ==
    ASSUME PageTypeOK, Coherent, NEW v \in Viewers, Lookup(v)
    PROVE  Coherent'
<1> USE DEF cacheVars, viewerVars, hubVars
<1>0. /\ UNCHANGED <<pageChanges, updates, handler, cached, gens, group, refresh, needed, stream, window, trailing>>
      /\ fetch[v].pc = "lookup" /\ fetch[v].leader = Nobody
  BY DEF Lookup, GetKept, Coherent, Flights
<1>1. /\ NoFetch.pc = "idle" /\ NoFetch.leader = Nobody /\ NoFetch.gen = 0
  BY DEF NoFetch
<1>2. cached >= needed[v] /\ gens >= 0
  <2>1. PICK c \in 0..MaxPageChanges : TellsAfter(c)
    BY DEF Coherent
  <2>2. cached >= c /\ needed[v] <= c
    BY <2>1 DEF TellsAfter, ToldUpTo, CacheShows
  <2> QED BY <2>2, PageNumbers
<1>3. Nobody \notin Viewers /\ fetch[v].gen <= gens
  BY PageAssumption DEF Nobody, Coherent, Flights
<1>4. \/ fetch'[v] = NoFetch /\ page'[v] = cached
      \/ /\ fetch'[v].pc = "do" /\ fetch'[v].leader = Nobody /\ fetch'[v].gen = fetch[v].gen
         /\ page'[v] = page[v]
  <2>1. CASE cached # NoPage
    BY <2>1 DEF Lookup, Shows, PageTypeOK
  <2>2. CASE cached = NoPage
    BY <1>0, <2>2 DEF Lookup, PageTypeOK, Request
  <2> QED BY <2>1, <2>2
<1>5. \A w \in Viewers : w # v => fetch'[w] = fetch[w] /\ page'[w] = page[w]
  <2>1. CASE cached # NoPage
    BY <2>1 DEF Lookup, Shows, PageTypeOK
  <2>2. CASE cached = NoPage
    BY <2>2 DEF Lookup, PageTypeOK
  <2> QED BY <2>1, <2>2
<1>6. fetch'[v].pc \in {"idle", "do"} /\ fetch'[v].leader = Nobody /\ fetch'[v].gen <= gens
  BY <1>1, <1>2, <1>3, <1>4
<1> HIDE DEF NoFetch, Nobody
<1>7. Flights'
  <2>1. \A w \in Viewers : Flies(w) => fetch'[w] = fetch[w]
    BY <1>0, <1>5 DEF Flies
  <2>2. ASSUME NEW w \in Viewers
        PROVE  /\ fetch'[w].pc \in {"idle", "lookup", "do"} => fetch'[w].leader = Nobody
               /\ Flies(w)' => fetch'[w].leader = w
               /\ (fetch[w].pc = "wait" => fetch[w].leader \in Viewers /\ Flies(fetch[w].leader))'
               /\ fetch'[w].gen <= gens
    <3>1. CASE w = v
      BY <1>6, <3>1 DEF Flies
    <3>2. CASE w # v
      <4>1. fetch'[w] = fetch[w]
        BY <1>5, <3>2
      <4> QED BY <2>1, <4>1 DEF Coherent, Flights, Flies
    <3> QED BY <3>1, <3>2
  <2>3. (group # Nobody => Flies(group))'
    BY <1>0, <2>1 DEF Coherent, Flights, Flies, PageTypeOK
  <2> QED BY <1>0, <2>2, <2>3 DEF Flights
<1>8. Served'
  <2>1. fetch'[v].pc = "idle" => page'[v] >= needed[v]
    BY <1>1, <1>2, <1>4
  <2> QED BY <1>0, <1>3, <1>5, <1>6, <2>1 DEF Coherent, Served
<1>9. \A w \in Viewers : fetch'[w].pc = "store" => fetch'[w] = fetch[w]
  BY <1>5, <1>6
<1> QED BY <1>0, <1>7, <1>8, <1>9, RequestKeeps DEF Coherent

\* A request joins the registered flight, or leads a new one.
LEMMA DoCoherent ==
    ASSUME PageTypeOK, Coherent, NEW v \in Viewers, Do(v)
    PROVE  Coherent'
<1> USE DEF cacheVars, viewerVars, hubVars
<1>0. /\ UNCHANGED <<pageChanges, updates, handler, cached, gens, page, refresh, needed, stream, window, trailing>>
      /\ fetch[v].pc = "do" /\ fetch[v].leader = Nobody
  BY DEF Do, GetKept, Coherent, Flights
<1>1. Nobody \notin Viewers /\ fetch[v].gen <= gens /\ ~Flies(v)
  BY <1>0, PageAssumption DEF Nobody, Coherent, Flights, Flies
<1>2. /\ \A w \in Viewers : w # v => fetch'[w] = fetch[w]
      /\ fetch'[v].gen = fetch[v].gen
      /\ \/ fetch'[v].pc = "wait" /\ fetch'[v].leader = group /\ group # Nobody /\ group' = group
         \/ fetch'[v].pc = "again" /\ fetch'[v].leader = v /\ group' = v
  <2>1. CASE group # Nobody
    <3>1. fetch' = [fetch EXCEPT ![v] = [fetch[v] EXCEPT !.pc = "wait", !.leader = group]] /\ group' = group
      BY <2>1 DEF Do
    <3>2. fetch'[v] = [fetch[v] EXCEPT !.pc = "wait", !.leader = group]
      BY <3>1, RequestMoves
    <3>3. fetch[v] \in Request /\ \A w \in Viewers : w # v => fetch'[w] = fetch[w]
      BY <3>1, RequestMoves
    <3>4. fetch'[v].gen = fetch[v].gen /\ fetch'[v].pc = "wait" /\ fetch'[v].leader = group
      BY <3>2, <3>3 DEF Request
    <3> QED BY <2>1, <3>1, <3>3, <3>4
  <2>2. CASE group = Nobody
    <3>1. fetch' = [fetch EXCEPT ![v] = [fetch[v] EXCEPT !.pc = "again", !.leader = v]] /\ group' = v
      BY <2>2 DEF Do
    <3>2. fetch'[v] = [fetch[v] EXCEPT !.pc = "again", !.leader = v]
      BY <3>1, RequestMoves
    <3>3. fetch[v] \in Request /\ \A w \in Viewers : w # v => fetch'[w] = fetch[w]
      BY <3>1, RequestMoves
    <3>4. fetch'[v].gen = fetch[v].gen /\ fetch'[v].pc = "again" /\ fetch'[v].leader = v
      BY <3>2, <3>3 DEF Request
    <3> QED BY <2>2, <3>1, <3>3, <3>4
  <2> QED BY <2>1, <2>2
<1>3. group # Nobody => group \in Viewers /\ Flies(group) /\ group # v
  BY <1>1 DEF Coherent, Flights, PageTypeOK
<1> HIDE DEF Nobody
<1>4. \A w \in Viewers : Flies(w) => fetch'[w] = fetch[w]
  BY <1>1, <1>2
<1>5. Flights'
  BY <1>0, <1>1, <1>2, <1>3, <1>4 DEF Coherent, Flights, Flies
<1>6. Served'
  <2>1. ASSUME group # Nobody, fetch[group].pc = "store"
        PROVE  fetch[group].html >= needed[v]
    <3>1. PICK c \in 0..MaxPageChanges : TellsAfter(c)
      BY DEF Coherent
    <3>2. fetch[group].html >= c /\ needed[v] <= c
      BY <1>3, <2>1, <3>1 DEF TellsAfter, FlightShows, ToldUpTo
    <3> QED BY <1>3, <2>1, <3>2, PageNumbers
  <2>2. ASSUME NEW w \in Viewers, fetch'[w].pc = "idle"
        PROVE  page'[w] >= needed'[w]
    <3>1. w # v /\ fetch'[w] = fetch[w]
      BY <1>2, <2>2
    <3> QED BY <1>0, <2>2, <3>1 DEF Coherent, Served
  <2>3. ASSUME NEW w \in Viewers, fetch'[w].pc = "store"
        PROVE  /\ fetch'[w].html <= pageChanges'
               /\ \A u \in Viewers : fetch'[u].leader = w => fetch'[w].html >= needed'[u]
    <3>1. w # v /\ fetch'[w] = fetch[w]
      BY <1>2, <2>3
    <3>2. ASSUME NEW u \in Viewers, fetch'[u].leader = w
          PROVE  fetch[w].html >= needed[u]
      <4>1. CASE u # v
        BY <1>2, <2>3, <3>1, <3>2, <4>1 DEF Coherent, Served
      <4>2. CASE u = v
        BY <1>2, <2>1, <2>3, <3>1, <3>2, <4>2
      <4> QED BY <4>1, <4>2
    <3> QED BY <1>0, <2>3, <3>1, <3>2 DEF Coherent, Served
  <2> QED BY <2>2, <2>3 DEF Served
<1>7. \A w \in Viewers : fetch'[w].pc = "store" => fetch'[w] = fetch[w]
  BY <1>2
<1>8. \A w \in Viewers : group' = w /\ fetch'[w].pc = "store" => group = w
  BY <1>2
<1> QED BY <1>0, <1>5, <1>6, <1>7, <1>8, RequestKeeps DEF Coherent

LEMMA AgainCoherent ==
    ASSUME PageTypeOK, Coherent, NEW v \in Viewers, LookupAgain(v)
    PROVE  Coherent'
<1> USE DEF cacheVars, viewerVars, hubVars
<1>0. /\ UNCHANGED <<pageChanges, updates, handler, cached, gens, refresh, needed, stream, window, trailing>>
      /\ fetch[v].pc = "again" /\ fetch[v].leader = v /\ Flies(v)
  BY DEF LookupAgain, GetKept, Coherent, Flights, Flies
<1>1. CASE cached # NoPage
  <2>1. Lands(v, cached)
    BY <1>1 DEF LookupAgain
  <2>2. cached \in Content /\ \A w \in Viewers : cached >= needed[w]
    <3>1. PICK c \in 0..MaxPageChanges : TellsAfter(c)
      BY DEF Coherent
    <3>2. cached >= c /\ \A w \in Viewers : needed[w] <= c
      BY <3>1 DEF TellsAfter, ToldUpTo, CacheShows
    <3> QED BY <3>2, PageNumbers DEF PageTypeOK
  <2> QED BY <1>0, <1>1, <2>1, <2>2, LandsCoherent, RequestKeeps DEF Coherent
<1>2. CASE cached = NoPage
  <2>1. /\ \A w \in Viewers : w # v => fetch'[w] = fetch[w]
        /\ fetch'[v].pc = "build" /\ fetch'[v].leader = v /\ fetch'[v].gen = gens
        /\ UNCHANGED <<page, group>>
    <3>1. /\ fetch' = [fetch EXCEPT ![v] = [fetch[v] EXCEPT !.pc = "build", !.gen = gens]]
          /\ UNCHANGED <<page, group>>
      BY <1>2 DEF LookupAgain
    <3>2. fetch'[v] = [fetch[v] EXCEPT !.pc = "build", !.gen = gens]
      BY <3>1, RequestMoves
    <3>3. fetch[v] \in Request /\ \A w \in Viewers : w # v => fetch'[w] = fetch[w]
      BY <3>1, RequestMoves
    <3> QED BY <1>0, <3>1, <3>2, <3>3 DEF Request
  <2>2. gens <= gens
    BY PageNumbers
  <2>3. \A w \in Viewers : Flies(w) <=> Flies(w)'
    BY <1>0, <2>1 DEF Flies
  <2>4. \A w \in Viewers : fetch'[w].leader = fetch[w].leader
    BY <1>0, <2>1
  <2>5. Flights'
    <3>1. ASSUME NEW w \in Viewers
          PROVE  /\ fetch'[w].pc \in {"idle", "lookup", "do"} => fetch'[w].leader = Nobody
                 /\ Flies(w)' => fetch'[w].leader = w
                 /\ (fetch[w].pc = "wait" => fetch[w].leader \in Viewers /\ Flies(fetch[w].leader))'
                 /\ fetch'[w].gen <= gens
      <4>1. CASE w = v
        BY <2>1, <2>2, <4>1
      <4>2. CASE w # v
        BY <2>1, <2>3, <4>2 DEF Coherent, Flights
      <4> QED BY <4>1, <4>2
    <3>2. (group # Nobody => Flies(group))'
      BY <2>1, <2>3 DEF Coherent, Flights, PageTypeOK
    <3> QED BY <1>0, <3>1, <3>2 DEF Flights
  <2>6. Served'
    BY <1>0, <2>1, <2>4 DEF Coherent, Served
  <2>7. \A w \in Viewers : fetch'[w].pc = "store" => fetch'[w] = fetch[w]
    BY <2>1
  <2> QED BY <1>0, <2>1, <2>5, <2>6, <2>7, RequestKeeps DEF Coherent
<1> QED BY <1>1, <1>2

LEMMA BuildCoherent ==
    ASSUME PageTypeOK, Coherent, NEW v \in Viewers, Build(v)
    PROVE  Coherent'
<1> USE DEF cacheVars, viewerVars, hubVars
<1>0. /\ UNCHANGED <<pageChanges, updates, handler, cached, gens, refresh, stream, window, trailing>>
      /\ fetch[v].pc = "build" /\ fetch[v].leader = v /\ Flies(v)
  BY DEF Build, Coherent, Flights, Flies
<1>1. CASE /\ fetch' = [fetch EXCEPT ![v] = [fetch[v] EXCEPT !.pc = "store", !.html = pageChanges]]
           /\ UNCHANGED <<page, group, needed>>
  <2>1. fetch[v] \in Request /\ \A w \in Viewers : w # v => fetch'[w] = fetch[w]
    BY <1>1, RequestMoves
  <2>2. fetch'[v] = [fetch[v] EXCEPT !.pc = "store", !.html = pageChanges]
    BY <1>1, RequestMoves
  <2>3. /\ fetch'[v].pc = "store" /\ fetch'[v].leader = v /\ fetch'[v].gen = fetch[v].gen
        /\ fetch'[v].html = pageChanges
    BY <1>0, <2>1, <2>2 DEF Request
  <2>4. \A w \in Viewers : /\ Flies(w) <=> Flies(w)'
                           /\ fetch'[w].leader = fetch[w].leader /\ fetch'[w].gen = fetch[w].gen
                           /\ w # v => fetch'[w].pc = fetch[w].pc /\ fetch'[w].html = fetch[w].html
    BY <1>0, <2>1, <2>3 DEF Flies
  <2>5. Flights'
    <3>1. ASSUME NEW w \in Viewers
          PROVE  /\ fetch'[w].pc \in {"idle", "lookup", "do"} => fetch'[w].leader = Nobody
                 /\ Flies(w)' => fetch'[w].leader = w
                 /\ (fetch[w].pc = "wait" => fetch[w].leader \in Viewers /\ Flies(fetch[w].leader))'
                 /\ fetch'[w].gen <= gens
      <4>1. CASE w = v
        BY <1>0, <2>3, <4>1 DEF Coherent, Flights
      <4>2. CASE w # v
        BY <2>1, <2>4, <4>2 DEF Coherent, Flights
      <4> QED BY <4>1, <4>2
    <3>2. (group # Nobody => Flies(group))'
      BY <1>1, <2>4 DEF Coherent, Flights, PageTypeOK
    <3> QED BY <1>0, <3>1, <3>2 DEF Flights
  <2>6. PICK c \in 0..MaxPageChanges : TellsAfter(c)
    BY DEF Coherent
  <2>7. pageChanges >= c /\ handler.change <= pageChanges /\ \A w \in Viewers : needed[w] <= pageChanges
    <3>1. c <= pageChanges /\ \A w \in Viewers : needed[w] <= c
      BY <2>6 DEF TellsAfter, ToldUpTo
    <3>2. handler.change <= pageChanges
      BY DEF Coherent, Pending
    <3> QED BY <3>1, <3>2, PageNumbers
  <2>8. Served'
    <3>1. ASSUME NEW w \in Viewers, fetch'[w].pc = "idle"
          PROVE  page'[w] >= needed'[w]
      <4>1. w # v /\ fetch[w].pc = "idle"
        BY <2>3, <2>4, <3>1
      <4> QED BY <1>1, <4>1 DEF Coherent, Served
    <3>2. ASSUME NEW w \in Viewers, fetch'[w].pc = "store"
          PROVE  /\ fetch'[w].html <= pageChanges'
                 /\ \A u \in Viewers : fetch'[u].leader = w => fetch'[w].html >= needed'[u]
      <4>1. CASE w = v
        <5>1. pageChanges <= pageChanges /\ \A u \in Viewers : pageChanges >= needed[u]
          BY <2>7, PageNumbers
        <5> QED BY <1>0, <1>1, <2>3, <4>1, <5>1
      <4>2. CASE w # v
        BY <1>0, <1>1, <2>4, <3>2, <4>2 DEF Coherent, Served
      <4> QED BY <4>1, <4>2
    <3> QED BY <3>1, <3>2 DEF Served
  <2>9. Pending'
    BY <1>0, PendingFrame DEF Coherent
  <2>10. \A d \in 0..MaxPageChanges : d <= pageChanges /\ CacheShows(d) => CacheShows(d)'
    BY <1>0, <2>3, <2>4 DEF CacheShows
  <2>11. Cleaned'
    <3>1. handler.change \in 0..MaxPageChanges
      BY DEF PageTypeOK
    <3>2. Cleaned
      BY DEF Coherent
    <3>3. handler.pc = "forget" => CacheShows(handler.change) /\ handler.change <= pageChanges
      BY <2>7, <3>2 DEF Cleaned
    <3>4. PICK d \in 0..MaxPageChanges : d = handler.change
      BY <3>1
    <3>5. handler.pc = "forget" => CacheShows(d)'
      BY <2>10, <3>3, <3>4
    <3> QED BY <1>0, <3>4, <3>5 DEF Cleaned, CacheShows
  <2>12. FlightShows(c)'
    BY <1>1, <2>3, <2>4, <2>6, <2>7 DEF TellsAfter, FlightShows
  <2>13. TellsAfter(c)'
    BY <1>0, <1>1, <2>6, <2>7, <2>10, <2>12, ToldFrame DEF TellsAfter
  <2> QED BY <2>5, <2>8, <2>9, <2>11, <2>13 DEF Coherent
<1>2. CASE /\ Lands(v, NoPage)
           /\ needed' = [w \in Viewers |-> IF fetch[w].leader = v THEN 0 ELSE needed[w]]
  <2>0. \A w \in Viewers : IF fetch[w].leader = v THEN needed'[w] = 0 ELSE needed'[w] = needed[w]
    BY <1>2
  <2>1. \A w \in Viewers : IF fetch[w].leader = v THEN fetch'[w] = NoFetch
                           ELSE fetch'[w] = fetch[w]
    BY <1>2 DEF Lands
  <2>2. page' = page
    BY <1>2 DEF Lands, PageTypeOK
  <2>3. NoFetch.pc = "idle" /\ NoFetch.leader = Nobody /\ NoFetch.gen = 0
    BY DEF NoFetch
  <2>4. Nobody \notin Viewers /\ gens >= 0
    BY PageAssumption, PageNumbers DEF Nobody
  <2>5. group' = IF group = v THEN Nobody ELSE group
    BY <1>2 DEF Lands
  <2>6. \A w \in Viewers : Flies(w) /\ w # v => fetch'[w] = fetch[w]
    BY <2>1 DEF Coherent, Flights
  <2>7. \A w \in Viewers : needed'[w] <= needed[w] /\ needed'[w] \in Nat
    BY <2>0, PageNumbers
  <2> HIDE DEF NoFetch, Nobody, NoPage
  <2>8. Flights'
    <3>1. ASSUME NEW w \in Viewers
          PROVE  /\ fetch'[w].pc \in {"idle", "lookup", "do"} => fetch'[w].leader = Nobody
                 /\ Flies(w)' => fetch'[w].leader = w
                 /\ (fetch[w].pc = "wait" => fetch[w].leader \in Viewers /\ Flies(fetch[w].leader))'
                 /\ fetch'[w].gen <= gens
      <4>1. CASE fetch[w].leader = v
        <5>1. fetch'[w] = NoFetch
          BY <2>1, <4>1
        <5> QED BY <2>3, <2>4, <5>1 DEF Flies
      <4>2. CASE fetch[w].leader # v
        <5>1. fetch'[w] = fetch[w]
          BY <2>1, <4>2
        <5>2. fetch[w].pc = "wait" => fetch[w].leader \in Viewers /\ Flies(fetch[w].leader)
          BY DEF Coherent, Flights
        <5>3. fetch[w].pc = "wait" => fetch'[fetch[w].leader] = fetch[fetch[w].leader]
          BY <2>6, <4>2, <5>2
        <5> QED BY <5>1, <5>2, <5>3 DEF Coherent, Flights, Flies
      <4> QED BY <4>1, <4>2
    <3>2. (group # Nobody => Flies(group))'
      <4>1. group' # Nobody => group' = group /\ group # v /\ group \in Viewers /\ Flies(group)
        BY <2>5 DEF Coherent, Flights, PageTypeOK
      <4>2. group' # Nobody => fetch'[group'].pc = fetch[group].pc
        BY <2>6, <4>1
      <4> QED BY <4>1, <4>2 DEF Flies
    <3> QED BY <1>0, <3>1, <3>2 DEF Flights
  <2>9. \A w \in Viewers : fetch'[w].pc = "store" => fetch'[w] = fetch[w]
    BY <2>1, <2>3
  <2>10. Served'
    <3>1. ASSUME NEW w \in Viewers, fetch'[w].pc = "idle"
          PROVE  page'[w] >= needed'[w]
      <4>1. CASE fetch[w].leader = v
        BY <2>0, <2>2, <4>1, PageNumbers
      <4>2. CASE fetch[w].leader # v
        BY <2>0, <2>1, <2>2, <3>1, <4>2 DEF Coherent, Served
      <4> QED BY <4>1, <4>2
    <3>2. ASSUME NEW w \in Viewers, fetch'[w].pc = "store"
          PROVE  /\ fetch'[w].html <= pageChanges'
                 /\ \A u \in Viewers : fetch'[u].leader = w => fetch'[w].html >= needed'[u]
      <4>1. fetch'[w] = fetch[w]
        BY <2>9, <3>2
      <4>2. \A u \in Viewers : fetch'[u].leader = w => fetch[u].leader = w
        BY <2>1, <2>3, <2>4
      <4>3. \A u \in Viewers : fetch'[u].leader = w => fetch[w].html >= needed[u]
        BY <3>2, <4>1, <4>2 DEF Coherent, Served
      <4> QED BY <1>0, <2>7, <3>2, <4>1, <4>3, PageNumbers DEF Coherent, Served
    <3> QED BY <3>1, <3>2 DEF Served
  <2>11. Pending' /\ Cleaned'
    <3>1. Pending'
      BY <1>0, PendingFrame DEF Coherent
    <3> QED BY <1>0, <2>9, <3>1 DEF Coherent, Cleaned, CacheShows
  <2>12. PICK c \in 0..MaxPageChanges : TellsAfter(c)
    BY DEF Coherent
  <2>13. ToldUpTo(c)'
    <3>1. \A w \in Viewers : needed'[w] <= c
      BY <2>7, <2>12, PageNumbers DEF TellsAfter, ToldUpTo
    <3> QED BY <1>0, <2>12, <3>1 DEF TellsAfter, ToldUpTo
  <2>14. \A w \in Viewers : group' = w => group = w
    BY <2>4, <2>5
  <2>15. CacheShows(c)' /\ FlightShows(c)'
    BY <1>0, <2>9, <2>12, <2>14, ShowsKeeps, FlightKeeps DEF TellsAfter
  <2> QED BY <1>0, <2>8, <2>10, <2>11, <2>12, <2>13, <2>15 DEF Coherent, TellsAfter
<1>3. \/ /\ fetch' = [fetch EXCEPT ![v] = [fetch[v] EXCEPT !.pc = "store", !.html = pageChanges]]
         /\ UNCHANGED <<page, group, needed>>
      \/ /\ Lands(v, NoPage)
         /\ needed' = [w \in Viewers |-> IF fetch[w].leader = v THEN 0 ELSE needed[w]]
  BY DEF Build
<1> QED BY <1>1, <1>2, <1>3

\* A build enters the cache only if nothing was invalidated since it began.
LEMMA StoreCoherent ==
    ASSUME PageTypeOK, Coherent, NEW v \in Viewers, storeIfCurrent(v)
    PROVE  Coherent'
<1> USE DEF cacheVars, viewerVars, hubVars
<1>0. /\ UNCHANGED <<pageChanges, updates, handler, gens, refresh, needed, stream, window, trailing>>
      /\ fetch[v].pc = "store" /\ fetch[v].leader = v /\ Flies(v)
      /\ Lands(v, fetch[v].html)
      /\ cached' = IF fetch[v].gen = gens THEN fetch[v].html ELSE cached
  BY DEF storeIfCurrent, IsCurrent, GetKept, Coherent, Flights, Flies
<1>1. PICK html \in Content : html = fetch[v].html
  BY DEF PageTypeOK, Request
<1>2. html # NoPage /\ \A w \in Viewers : fetch[w].leader = v => html >= needed[w]
  <2>1. html <= pageChanges /\ pageChanges < NoPage /\ pageChanges \in Nat
    BY <1>0, <1>1, ContentType, PageNumbers DEF Coherent, Served, PageTypeOK
  <2>2. \A w \in Viewers : fetch[w].leader = v => html >= needed[w]
    BY <1>0, <1>1 DEF Coherent, Served
  <2> QED BY <2>1, <2>2, ContentType
<1>3. Lands(v, html)
  BY <1>0, <1>1
<1>4. /\ Flights' /\ Served'
      /\ \A w \in Viewers : fetch'[w].pc = "store" => fetch'[w] = fetch[w]
      /\ \A w \in Viewers : group' = w => group = w
  BY <1>0, <1>2, <1>3, LandsCoherent
<1>5. \A c \in 0..MaxPageChanges : CacheShows(c) => CacheShows(c)'
  BY <1>0, <1>4 DEF CacheShows
<1>6. Pending'
  BY <1>0, PendingFrame DEF Coherent
<1>7. Cleaned'
  <2>1. PICK d \in 0..MaxPageChanges : d = handler.change
    BY DEF PageTypeOK
  <2>2. handler.pc = "forget" => CacheShows(d)'
    BY <1>5, <2>1 DEF Coherent, Cleaned
  <2> QED BY <1>0, <2>1, <2>2 DEF Cleaned, CacheShows
<1>8. PICK c \in 0..MaxPageChanges : TellsAfter(c)
  BY DEF Coherent
<1>9. TellsAfter(c)'
  BY <1>0, <1>4, <1>5, <1>8, ToldFrame, FlightKeeps DEF TellsAfter
<1> QED BY <1>4, <1>6, <1>7, <1>9 DEF Coherent

\* A browser opens the page, or fetches it again after it was told.
LEMMA AskCoherent ==
    ASSUME PageTypeOK, Coherent, NEW v \in Viewers, OpenPage(v) \/ refreshLiveContent(v)
    PROVE  Coherent'
<1> USE DEF cacheVars, viewerVars, hubVars
<1>0. /\ UNCHANGED <<pageChanges, updates, handler, cached, gens, group, page, stream, window, trailing>>
      /\ fetch[v].pc = "idle" /\ fetch[v].leader = Nobody
      /\ fetch' = [fetch EXCEPT ![v] = [fetch[v] EXCEPT !.pc = "lookup"]]
  BY DEF OpenPage, refreshLiveContent, Coherent, Flights
<1>1. fetch[v] \in Request /\ \A w \in Viewers : w # v => fetch'[w] = fetch[w]
  BY <1>0, RequestMoves
<1>2. fetch'[v] = [fetch[v] EXCEPT !.pc = "lookup"]
  BY <1>0, RequestMoves
<1>3. fetch'[v].pc = "lookup" /\ fetch'[v].leader = Nobody /\ fetch'[v].gen = fetch[v].gen
  BY <1>0, <1>1, <1>2 DEF Request
<1>4. Nobody \notin Viewers
  BY PageAssumption DEF Nobody
<1>5. \A w \in Viewers : needed'[w] = needed[w] \/ (w = v /\ needed'[w] = refresh[v].heard)
  BY DEF OpenPage, refreshLiveContent, PageTypeOK
<1>6. \A w \in Viewers : refresh'[w].heard = refresh[w].heard
  <2>1. CASE OpenPage(v)
    BY <2>1 DEF OpenPage
  <2>2. CASE refreshLiveContent(v)
    <3>1. refresh' = [refresh EXCEPT ![v].due = FALSE]
      BY <2>2 DEF refreshLiveContent
    <3>2. \A w \in Viewers : refresh[w] \in [due : BOOLEAN, heard : Content]
      BY DEF PageTypeOK
    <3>3. refresh'[v] = [refresh[v] EXCEPT !.due = FALSE] /\ \A w \in Viewers : w # v => refresh'[w] = refresh[w]
      BY <3>1 DEF PageTypeOK
    <3> QED BY <3>2, <3>3
  <2> QED BY <2>1, <2>2
<1>7. \A w \in Viewers : Flies(w) => fetch'[w] = fetch[w]
  BY <1>0, <1>1 DEF Flies
<1>8. \A w \in Viewers : Flies(w)' => Flies(w)
  BY <1>1, <1>3 DEF Flies
<1> HIDE DEF Nobody
<1>9. Flights'
  <2>1. ASSUME NEW w \in Viewers
        PROVE  /\ fetch'[w].pc \in {"idle", "lookup", "do"} => fetch'[w].leader = Nobody
               /\ Flies(w)' => fetch'[w].leader = w
               /\ (fetch[w].pc = "wait" => fetch[w].leader \in Viewers /\ Flies(fetch[w].leader))'
               /\ fetch'[w].gen <= gens
    <3>1. CASE w = v
      BY <1>3, <3>1 DEF Coherent, Flights, Flies
    <3>2. CASE w # v
      <4>1. fetch'[w] = fetch[w]
        BY <1>1, <3>2
      <4> QED BY <1>7, <4>1 DEF Coherent, Flights, Flies
    <3> QED BY <3>1, <3>2
  <2>2. (group # Nobody => Flies(group))'
    BY <1>0, <1>7 DEF Coherent, Flights, Flies, PageTypeOK
  <2> QED BY <1>0, <2>1, <2>2 DEF Flights
<1>10. Served'
  <2>1. ASSUME NEW w \in Viewers, fetch'[w].pc = "idle"
        PROVE  page'[w] >= needed'[w]
    <3>1. w # v /\ fetch[w].pc = "idle"
      BY <1>1, <1>3, <2>1
    <3> QED BY <1>0, <1>5, <3>1 DEF Coherent, Served
  <2>2. ASSUME NEW w \in Viewers, fetch'[w].pc = "store"
        PROVE  /\ fetch'[w].html <= pageChanges'
               /\ \A u \in Viewers : fetch'[u].leader = w => fetch'[w].html >= needed'[u]
    <3>1. w # v /\ fetch'[w] = fetch[w]
      BY <1>1, <1>3, <2>2
    <3>2. \A u \in Viewers : fetch'[u].leader = w => u # v /\ fetch[u].leader = w
      BY <1>1, <1>3, <1>4
    <3> QED BY <1>0, <1>5, <2>2, <3>1, <3>2 DEF Coherent, Served
  <2> QED BY <2>1, <2>2 DEF Served
<1>11. \A w \in Viewers : fetch'[w].pc = "store" => fetch'[w] = fetch[w]
  BY <1>1, <1>3
<1>12. Pending' /\ Cleaned'
  <2>1. Pending'
    BY <1>0, PendingFrame DEF Coherent
  <2> QED BY <1>0, <1>11, <2>1 DEF Coherent, Cleaned, CacheShows
<1>13. PICK c \in 0..MaxPageChanges : TellsAfter(c)
  BY DEF Coherent
<1>14. ToldUpTo(c)'
  BY <1>0, <1>5, <1>6, <1>13 DEF TellsAfter, ToldUpTo
<1>15. CacheShows(c)' /\ FlightShows(c)'
  BY <1>0, <1>11, <1>13, ShowsKeeps, FlightKeeps DEF TellsAfter
<1> QED BY <1>0, <1>9, <1>10, <1>12, <1>13, <1>14, <1>15 DEF Coherent, TellsAfter

\* A browser connects, disconnects or reads an event.
LEMMA StreamCoherent ==
    ASSUME PageTypeOK, Coherent, NEW v \in Viewers, Register(v) \/ Unregister(v) \/ scheduleRefresh(v)
    PROVE  Coherent'
<1> USE DEF cacheVars, viewerVars, hubVars
<1>0. UNCHANGED <<pageChanges, updates, handler, cached, gens, group, fetch, page, needed, trailing>>
  BY DEF Register, Unregister, scheduleRefresh
<1>1. Flights' /\ Served' /\ Pending' /\ Cleaned'
  BY <1>0, FlightsFrame, ServedFrame, PendingFrame, CleanedFrame DEF Coherent
<1>2. PICK c \in 0..MaxPageChanges : TellsAfter(c)
  BY DEF Coherent
<1>3. ToldUpTo(c)
  BY <1>2 DEF TellsAfter
<1>4. stream[v] \in Seq(Content)
  BY DEF PageTypeOK
<1>5. /\ \A w \in Viewers : w # v => stream'[w] = stream[w] /\ refresh'[w] = refresh[w]
      /\ \/ (stream'[v] = NotListening \/ stream'[v] = <<>>) /\ refresh'[v] = refresh[v]
         \/ /\ stream[v] # NotListening /\ stream[v] # <<>>
            /\ stream'[v] = Tail(stream[v]) /\ refresh'[v].heard = Head(stream[v])
  BY DEF Register, Unregister, scheduleRefresh, PageTypeOK
<1>6. ASSUME stream[v] # NotListening, stream[v] # <<>>
      PROVE  Head(stream[v]) <= c /\ \A i \in DOMAIN Tail(stream[v]) : Tail(stream[v])[i] <= c
  <2>1. Head(stream[v]) = stream[v][1] /\ 1 \in DOMAIN stream[v]
    BY <1>4, <1>6, HeadTailProperties, EmptySeq
  <2>2. \A i \in DOMAIN Tail(stream[v]) : i + 1 \in DOMAIN stream[v] /\ Tail(stream[v])[i] = stream[v][i + 1]
    BY <1>4, <1>6
  <2>3. \A i \in DOMAIN stream[v] : stream[v][i] <= c
    BY <1>3, <1>6 DEF ToldUpTo
  <2> QED BY <2>1, <2>2, <2>3
<1>7. refresh'[v].heard <= c
  BY <1>3, <1>5, <1>6 DEF ToldUpTo
<1>8. stream'[v] = NotListening \/ \A i \in DOMAIN stream'[v] : stream'[v][i] <= c
  <2>1. DOMAIN <<>> = {}
    OBVIOUS
  <2> HIDE DEF NotListening
  <2> QED BY <1>5, <1>6, <2>1
<1>9. ToldUpTo(c)'
  BY <1>0, <1>3, <1>5, <1>7, <1>8 DEF ToldUpTo
<1> QED BY <1>0, <1>1, <1>2, <1>9, ShowsFrame DEF Coherent, TellsAfter

LEMMA PageInvStep ==
    ASSUME PageTypeOK, PageInv, [PageNext]_pageVars
    PROVE  PageInv'
<1>1. CASE genReset
  <2>1. genReset' = genReset \/ genReset' = TRUE
    BY DEF PageNext, PageChanges, SkipEvent, resolveAffectedSlugs, InvalidateEntry, Forget, Fire, flush,
           ResetGenerations, EntryExpires, Lookup, Do, LookupAgain, Build, storeIfCurrent, OpenPage,
           Register, scheduleRefresh, refreshLiveContent, Unregister, GetKept, pageVars
  <2> QED BY <1>1, <2>1 DEF PageInv
<1>2. CASE Coherent
  <2>1. CASE ResetGenerations
    BY <2>1 DEF ResetGenerations, PageInv
  <2>2. CASE UNCHANGED pageVars
    <3>1. UNCHANGED <<pageChanges, updates, handler, cached, gens, group, fetch, page, stream,
                      refresh, trailing, needed>>
      BY <2>2 DEF pageVars
    <3>2. Flights' /\ Served' /\ Pending' /\ Cleaned'
      BY <1>2, <3>1, FlightsFrame, ServedFrame, PendingFrame, CleanedFrame DEF Coherent
    <3> QED BY <1>2, <3>1, <3>2, ToldFrame, ShowsFrame DEF Coherent, TellsAfter, PageInv
  <2>3. ASSUME NEW v \in Viewers,
               \/ Lookup(v) \/ Do(v) \/ LookupAgain(v) \/ Build(v) \/ storeIfCurrent(v)
               \/ OpenPage(v) \/ Register(v) \/ scheduleRefresh(v) \/ refreshLiveContent(v) \/ Unregister(v)
        PROVE  Coherent'
    BY <1>2, <2>3, LookupCoherent, DoCoherent, AgainCoherent, BuildCoherent, StoreCoherent,
       AskCoherent, StreamCoherent
  <2>4. CASE \/ \E urgent, lost \in BOOLEAN : PageChanges(urgent, lost)
             \/ SkipEvent \/ resolveAffectedSlugs \/ InvalidateEntry \/ Forget \/ Fire \/ flush
             \/ EntryExpires
    BY <1>2, <2>4, ChangeCoherent, TakeCoherent, InvalidateCoherent, ForgetCoherent, FireCoherent,
       ExpireCoherent DEF PageInv
  <2> QED BY <2>1, <2>2, <2>3, <2>4 DEF PageNext, PageInv
<1> QED BY <1>1, <1>2 DEF PageInv

LEMMA PageInvInit == PageInit => PageInv
<1> SUFFICES ASSUME PageInit PROVE Coherent
  BY DEF PageInv
<1>1. NoFetch.pc = "idle" /\ NoFetch.leader = Nobody /\ NoFetch.gen = 0
  BY DEF NoFetch
<1>2. NoPage >= 0 /\ 0 \in 0..MaxPageChanges /\ 0 <= 0
  BY ContentType, PageAssumption
<1>3. \A v \in Viewers : fetch[v] = NoFetch
  BY DEF PageInit
<1> HIDE DEF NoFetch, NoPage, NotListening, Nobody
<1>4. Flights
  BY <1>1, <1>2, <1>3 DEF PageInit, Flights, Flies
<1>5. Served
  BY <1>1, <1>2, <1>3 DEF PageInit, Served
<1>6. Pending /\ Cleaned
  BY <1>2 DEF PageInit, Pending, Cleaned
<1>7. TellsAfter(0)
  BY <1>1, <1>2, <1>3 DEF PageInit, TellsAfter, ToldUpTo, CacheShows, FlightShows
<1> QED BY <1>2, <1>4, <1>5, <1>6, <1>7 DEF Coherent

\* A browser that refetches the page because of an event shows at least the change
\* of that event: no cached page, no build begun before and no flight it joined is
\* older, as long as the generations are not reset.
THEOREM RefetchesAreFresh == PageSpec => []RefetchIsFresh
<1>1. PageTypeOK /\ PageInv /\ [PageNext]_pageVars => PageInv'
  BY PageInvStep
<1>2. PageInv => RefetchIsFresh
  BY DEF PageInv, Coherent, Served, RefetchIsFresh
<1> QED BY <1>1, <1>2, PageInvInit, PageTypeCorrect, PTL DEF PageSpec

-----------------------------------------------------------------------------
(* The push of transitions: the inductive invariant.                       *)

Holds(r, i) == i \in sender[r].claims

\* The reconciler does not look back as far as this interval.
Old(i) == intervals[i].at + PushHorizon <= pushTime

\* A pass that is under way, and the row it is at.
Passes ==
    \A r \in PushReplicas :
        /\ sender[r].pc = "idle" => sender[r].claims = {}
        /\ sender[r].pc = "claim" => sender[r].claims = {}
        /\ sender[r].pc = "send" => Holds(r, sender[r].row)
        /\ sender[r].pc # "idle" => /\ sender[r].began <= pushTime
                                    /\ pushTime <= sender[r].began + 1
        /\ sender[r].claims \subseteq DOMAIN intervals

\* A row of the ledger is not older than its interval; what has not happened was
\* not told.
Ledger ==
    /\ \A i \in DOMAIN deliveries : intervals[i].at <= deliveries[i].created
    /\ \A i \in Numbers \ DOMAIN intervals : \A b \in Browsers : received[i][b] = 0

\* The interval can still become, or be, a pending row.
Ahead(i) == IF i \in DOMAIN deliveries THEN deliveries[i].status = "pending" ELSE ~Old(i)

\* What holds of an interval whose claim was not lost: nobody holds or was told
\* what is still ahead; a row being sent has its holder, whose pass is not over;
\* a holder is alone, and has told a browser only when he took it off his list.
Once(i) ==
    /\ \A b \in Browsers : received[i][b] <= 1
    /\ Ahead(i) => /\ \A r \in PushReplicas : ~Holds(r, i)
                   /\ \A b \in Browsers : received[i][b] = 0
    /\ i \in DOMAIN deliveries /\ deliveries[i].status = "sending"
          => \E r \in PushReplicas : Holds(r, i) /\ deliveries[i].claimed >= sender[r].began
    /\ \A r \in PushReplicas : Holds(r, i) =>
          /\ \A q \in PushReplicas : Holds(q, i) => q = r
          /\ i \in DOMAIN deliveries => deliveries[i].status = "sending"
          /\ \A b \in Browsers : received[i][b] # 0 =>
                sender[r].pc = "send" /\ sender[r].row = i /\ b \notin sender[r].to

PushInv == Passes /\ Ledger /\ \A i \in DOMAIN intervals \ resent : Once(i)

-----------------------------------------------------------------------------
(* Types.                                                                  *)

\* Replica r's record becomes q; the others keep theirs.
LEMMA SenderMoves ==
    ASSUME PushTypeOK, NEW r \in PushReplicas, NEW q \in Sender, sender' = [sender EXCEPT ![r] = q]
    PROVE  /\ sender' \in [PushReplicas -> Sender] /\ sender'[r] = q
           /\ \A p \in PushReplicas : p # r => sender'[p] = sender[p]
BY DEF PushTypeOK

LEMMA IdleType ==
    /\ SenderIdle \in Sender
    /\ SenderIdle.pc = "idle" /\ SenderIdle.claims = {} /\ SenderIdle.began = 0
BY DEF SenderIdle, Sender

\* The intervals of a sequence, numbered.
LEMMA IntervalsType ==
    ASSUME PushTypeOK
    PROVE  /\ \A i \in DOMAIN intervals : intervals[i] \in IntervalRow /\ intervals[i].at \in Nat
           /\ DOMAIN intervals = 1..Len(intervals) /\ Len(intervals) \in Nat
<1>1. intervals \in Seq(IntervalRow)
  BY DEF PushTypeOK
<1>2. DOMAIN intervals = 1..Len(intervals) /\ Len(intervals) \in Nat
  BY <1>1
<1>3. \A i \in DOMAIN intervals : intervals[i] \in IntervalRow
  BY <1>1, <1>2, ElementOfSeq
<1> QED BY <1>2, <1>3 DEF IntervalRow

\* Subscriptions come, go and change.
LEMMA SubscribersType ==
    ASSUME PushTypeOK
    PROVE  /\ \A b \in Browsers : \A x \in Nat :
                 LET f == [y \in DOMAIN subscribers \cup {b} |-> IF y = b THEN x ELSE subscribers[y]]
                 IN  DOMAIN f \subseteq Browsers /\ f \in [DOMAIN f -> Nat]
           /\ \A S : LET f == Without(subscribers, S)
                     IN  DOMAIN f \subseteq Browsers /\ f \in [DOMAIN f -> Nat]
           /\ \A b \in Browsers, ok \in BOOLEAN : LET f == RecordSendResult(b, ok)
                     IN  DOMAIN f \subseteq Browsers /\ f \in [DOMAIN f -> Nat]
<1>1. DOMAIN subscribers \subseteq Browsers /\ subscribers \in [DOMAIN subscribers -> Nat]
  BY DEF PushTypeOK
<1>2. \A b \in Browsers : \A x \in Nat :
          LET f == [y \in DOMAIN subscribers \cup {b} |-> IF y = b THEN x ELSE subscribers[y]]
          IN  DOMAIN f \subseteq Browsers /\ f \in [DOMAIN f -> Nat]
  BY <1>1
<1>3. \A S : LET f == Without(subscribers, S)
             IN  DOMAIN f \subseteq Browsers /\ f \in [DOMAIN f -> Nat]
  BY <1>1 DEF Without
<1>4. ASSUME NEW b \in Browsers, NEW ok \in BOOLEAN
      PROVE  LET f == RecordSendResult(b, ok)
             IN  DOMAIN f \subseteq Browsers /\ f \in [DOMAIN f -> Nat]
  <2>1. CASE b \in DOMAIN subscribers
    <3>1. subscribers[b] \in Nat
      BY <1>1, <2>1
    <3>2. \A x \in Nat : LET f == [subscribers EXCEPT ![b] = x]
                         IN  DOMAIN f \subseteq Browsers /\ f \in [DOMAIN f -> Nat]
      BY <1>1, <2>1
    <3>3. (IF ok THEN 0 ELSE subscribers[b] + 1) \in Nat
      BY <3>1
    <3> QED BY <2>1, <3>2, <3>3 DEF RecordSendResult
  <2>2. CASE b \notin DOMAIN subscribers
    BY <1>1, <2>2 DEF RecordSendResult
  <2> QED BY <2>1, <2>2
<1> QED BY <1>2, <1>3, <1>4

\* The rows reconcileNotifications and ClaimDeliveries leave.
LEMMA DeliveriesType ==
    ASSUME PushTypeOK
    PROVE  /\ \A i \in DOMAIN deliveries : deliveries[i] \in DeliveryRow
           /\ Notifiable \subseteq DOMAIN intervals
BY DEF PushTypeOK, Notifiable

LEMMA OpensType ==
    ASSUME PushTypeOK, NEW s \in {"up", "down", "suspect"}, NEW trigger \in BOOLEAN,
           TransitionOpens(s, trigger)
    PROVE  /\ PushTypeOK'
           /\ DOMAIN intervals' = DOMAIN intervals \cup {Len(intervals) + 1}
           /\ Len(intervals) + 1 \notin DOMAIN intervals
           /\ \A i \in DOMAIN intervals : intervals'[i] = intervals[i]
<1> DEFINE x == [state |-> s, trigger |-> trigger, at |-> pushTime]
<1>1. x \in IntervalRow /\ intervals \in Seq(IntervalRow) /\ Len(intervals) <= MaxTransitions
  BY DEF TransitionOpens, IntervalRow, PushTypeOK
<1>2. intervals' = Append(intervals, x)
  BY DEF TransitionOpens
<1> HIDE DEF x
<1>3. intervals' \in Seq(IntervalRow) /\ Len(intervals') = Len(intervals) + 1
  BY <1>1, <1>2, AppendProperties
<1>4. Len(intervals) \in Nat /\ DOMAIN intervals = 1..Len(intervals)
      /\ DOMAIN intervals' = 1..(Len(intervals) + 1)
  BY <1>1, <1>3
<1>5. \A i \in DOMAIN intervals : intervals'[i] = intervals[i]
  BY <1>1, <1>2, <1>4, AppendProperties
<1>6. DOMAIN intervals' \subseteq Numbers
  BY <1>1, <1>4, PushAssumption DEF Numbers
<1>7. /\ DOMAIN intervals' = DOMAIN intervals \cup {Len(intervals) + 1}
      /\ Len(intervals) + 1 \notin DOMAIN intervals
  BY <1>4
<1> QED BY <1>3, <1>5, <1>6, <1>7 DEF TransitionOpens, PushTypeOK

LEMMA VisitorType ==
    ASSUME PushTypeOK, \/ EditPage
                       \/ \E b \in Browsers : HandlePushSubscribe(b) \/ HandlePushUnsubscribe(b)
                       \/ PushTick
    PROVE  PushTypeOK'
<1>1. CASE EditPage
  <2>1. shown' \in BOOLEAN /\ pushOn' \in BOOLEAN
    BY <1>1 DEF EditPage, PushTypeOK
  <2>2. pushEdits' \in Nat
    BY <1>1 DEF EditPage, PushEdit, PushTypeOK
  <2> QED BY <1>1, <2>1, <2>2 DEF EditPage, PushTypeOK
<1>2. ASSUME NEW b \in Browsers, HandlePushSubscribe(b) \/ HandlePushUnsubscribe(b)
      PROVE  PushTypeOK'
  <2>1. DOMAIN subscribers' \subseteq Browsers /\ subscribers' \in [DOMAIN subscribers' -> Nat]
    BY <1>2, SubscribersType DEF HandlePushSubscribe, HandlePushUnsubscribe, Subscribe, Unsubscribe
  <2>2. pushEdits' \in Nat
    BY <1>2 DEF HandlePushSubscribe, HandlePushUnsubscribe, PushEdit, PushTypeOK
  <2> QED BY <1>2, <2>1, <2>2 DEF HandlePushSubscribe, HandlePushUnsubscribe, Subscribe, Unsubscribe, PushTypeOK
<1>3. CASE PushTick
  BY <1>3 DEF PushTick, PushTypeOK
<1> QED BY <1>1, <1>2, <1>3

LEMMA ReconcileType ==
    ASSUME PushTypeOK, NEW r \in PushReplicas, reconcileNotifications(r)
    PROVE  /\ PushTypeOK'
           /\ sender'[r].pc = "claim" /\ sender'[r].began = pushTime
           /\ sender'[r].claims = sender[r].claims
           /\ \A p \in PushReplicas : p # r => sender'[p] = sender[p]
           /\ \/ deliveries' = deliveries
              \/ /\ DOMAIN deliveries' = DOMAIN deliveries \cup Notifiable
                 /\ \A i \in DOMAIN deliveries : deliveries'[i] = deliveries[i]
                 /\ \A i \in Notifiable : /\ deliveries'[i].status = "pending"
                                          /\ deliveries'[i].created = pushTime
<1> DEFINE q == [sender[r] EXCEPT !.pc = "claim", !.began = pushTime]
           new == [status |-> "pending", created |-> pushTime, claimed |-> 0]
<1>1. sender[r] \in Sender /\ sender' = [sender EXCEPT ![r] = q]
  BY DEF reconcileNotifications, PushTypeOK
<1>2. q \in Sender /\ q.pc = "claim" /\ q.began = pushTime /\ q.claims = sender[r].claims
  BY <1>1 DEF Sender, PushTypeOK
<1>3. new \in DeliveryRow /\ new.status = "pending" /\ new.created = pushTime
  BY DEF DeliveryRow, PushTypeOK
<1>4. \A i \in Notifiable : i \notin DOMAIN deliveries
  BY DEF Notifiable, Recorded
<1> HIDE DEF q, new
<1>5. \/ deliveries' = deliveries
      \/ deliveries' = [i \in DOMAIN deliveries \cup Notifiable |->
                           IF i \in Notifiable THEN new ELSE deliveries[i]]
  BY DEF reconcileNotifications, new
<1>6. \/ deliveries' = deliveries
      \/ /\ DOMAIN deliveries' = DOMAIN deliveries \cup Notifiable
         /\ \A i \in DOMAIN deliveries : deliveries'[i] = deliveries[i]
         /\ \A i \in Notifiable : deliveries'[i] = new
         /\ deliveries' \in [DOMAIN deliveries \cup Notifiable -> DeliveryRow]
  BY <1>3, <1>4, <1>5, DeliveriesType
<1>7. DOMAIN deliveries' \subseteq DOMAIN intervals /\ deliveries' \in [DOMAIN deliveries' -> DeliveryRow]
  BY <1>6, DeliveriesType DEF PushTypeOK
<1>8. pushFaults' \in Nat
  BY DEF reconcileNotifications, PushFault, PushTypeOK
<1>9. sender' \in [PushReplicas -> Sender] /\ sender'[r] = q
      /\ \A p \in PushReplicas : p # r => sender'[p] = sender[p]
  BY <1>1, <1>2, SenderMoves
<1>10. PushTypeOK'
  BY <1>7, <1>8, <1>9 DEF reconcileNotifications, PushTypeOK
<1> QED BY <1>2, <1>3, <1>6, <1>9, <1>10

\* The rows a pass claims.
Claims == {i \in DOMAIN deliveries : Claimable(i)}

LEMMA ClaimType ==
    ASSUME PushTypeOK, NEW r \in PushReplicas, ClaimDeliveries(r)
    PROVE  /\ PushTypeOK'
           /\ \/ Claims = {} /\ sender'[r] = SenderIdle
              \/ /\ sender'[r].pc = "next" /\ sender'[r].claims = Claims
                 /\ sender'[r].began = sender[r].began
           /\ \A p \in PushReplicas : p # r => sender'[p] = sender[p]
           /\ DOMAIN deliveries' = DOMAIN deliveries
           /\ \A i \in DOMAIN deliveries : deliveries'[i].created = deliveries[i].created
           /\ \A i \in DOMAIN deliveries \ Claims : deliveries'[i] = deliveries[i]
           /\ \A i \in Claims : deliveries'[i].status = "sending" /\ deliveries'[i].claimed = pushTime
<1> DEFINE q == [sender[r] EXCEPT !.pc = "next", !.claims = Claims]
<1>0. Claims \subseteq Numbers
  BY DEF Claims, PushTypeOK
<1>1. sender[r] \in Sender
  BY DEF PushTypeOK
<1>2. q \in Sender /\ q.pc = "next" /\ q.claims = Claims /\ q.began = sender[r].began
  BY <1>0, <1>1 DEF Sender
<1>3. \/ Claims = {} /\ sender' = [sender EXCEPT ![r] = SenderIdle]
      \/ sender' = [sender EXCEPT ![r] = q]
  BY DEF ClaimDeliveries, Claims
<1> HIDE DEF q
<1>4. /\ sender' \in [PushReplicas -> Sender]
      /\ (Claims = {} /\ sender'[r] = SenderIdle) \/ sender'[r] = q
      /\ \A p \in PushReplicas : p # r => sender'[p] = sender[p]
  BY <1>2, <1>3, IdleType, SenderMoves
<1>5. /\ DOMAIN deliveries' = DOMAIN deliveries
      /\ \A i \in DOMAIN deliveries \ Claims : deliveries'[i] = deliveries[i]
      /\ \A i \in Claims : deliveries'[i] = [deliveries[i] EXCEPT !.status = "sending", !.claimed = pushTime]
      /\ deliveries' = [i \in DOMAIN deliveries |-> deliveries'[i]]
  BY DEF ClaimDeliveries, Claims
<1>6. \A i \in DOMAIN deliveries : deliveries[i] \in DeliveryRow
  BY DeliveriesType
<1>7. \A i \in Claims : /\ deliveries'[i] \in DeliveryRow /\ deliveries'[i].status = "sending"
                        /\ deliveries'[i].claimed = pushTime
                        /\ deliveries'[i].created = deliveries[i].created
  <2> TAKE i \in Claims
  <2>1. deliveries[i] \in DeliveryRow /\ pushTime \in Nat
    BY <1>6 DEF Claims, PushTypeOK
  <2>2. deliveries'[i] = [deliveries[i] EXCEPT !.status = "sending", !.claimed = pushTime]
    BY <1>5
  <2> QED BY <2>1, <2>2 DEF DeliveryRow
<1>8. deliveries' \in [DOMAIN deliveries' -> DeliveryRow] /\ DOMAIN deliveries' \subseteq DOMAIN intervals
  BY <1>5, <1>6, <1>7 DEF PushTypeOK
<1>9. PushTypeOK'
  BY <1>4, <1>8 DEF ClaimDeliveries, PushTypeOK
<1>10. \A i \in DOMAIN deliveries : deliveries'[i].created = deliveries[i].created
  BY <1>5, <1>7
<1> QED BY <1>2, <1>4, <1>5, <1>7, <1>9, <1>10

LEMMA DeliverType ==
    ASSUME PushTypeOK, NEW r \in PushReplicas, NEW i \in DOMAIN deliveries, deliver(r, i)
    PROVE  /\ PushTypeOK'
           /\ sender'[r].began = sender[r].began
           /\ \/ /\ sender'[r].pc = "send" /\ sender'[r].row = i /\ sender'[r].claims = sender[r].claims
                 /\ UNCHANGED resent
              \/ /\ sender'[r].pc = sender[r].pc /\ sender'[r].claims = sender[r].claims \ {i}
                 /\ resent' = resent \cup {i}
           /\ \A p \in PushReplicas : p # r => sender'[p] = sender[p]
<1> DEFINE q == [sender[r] EXCEPT !.pc = "send", !.row = i, !.to = DOMAIN subscribers, !.sent = 0, !.failed = 0]
           d == [sender[r] EXCEPT !.claims = sender[r].claims \ {i}]
<1>1. sender[r] \in Sender /\ i \in Numbers /\ DOMAIN subscribers \in SUBSET Browsers
  BY DEF PushTypeOK
<1>2. /\ q \in Sender /\ q.pc = "send" /\ q.row = i /\ q.claims = sender[r].claims
      /\ q.began = sender[r].began
  BY <1>1 DEF Sender
<1>3. /\ d \in Sender /\ d.pc = sender[r].pc /\ d.claims = sender[r].claims \ {i}
      /\ d.began = sender[r].began
  BY <1>1 DEF Sender
<1>4. \/ sender' = [sender EXCEPT ![r] = q] /\ UNCHANGED <<resent, pushFaults>>
      \/ sender' = [sender EXCEPT ![r] = d] /\ resent' = resent \cup {i} /\ pushFaults' = pushFaults + 1
  BY DEF deliver, PushFault, SubscriptionsForPage
<1> HIDE DEF q, d
<1>5. /\ sender' \in [PushReplicas -> Sender]
      /\ \/ sender'[r] = q /\ UNCHANGED <<resent, pushFaults>>
         \/ sender'[r] = d /\ resent' = resent \cup {i} /\ pushFaults' = pushFaults + 1
      /\ \A p \in PushReplicas : p # r => sender'[p] = sender[p]
  BY <1>2, <1>3, <1>4, SenderMoves
<1>6. PushTypeOK'
  BY <1>1, <1>5 DEF deliver, PushTypeOK
<1> QED BY <1>2, <1>3, <1>5, <1>6

LEMMA SendType ==
    ASSUME PushTypeOK, NEW r \in PushReplicas, NEW b \in Browsers, sendPush(r, b),
           sender[r].row \in Numbers
    PROVE  /\ PushTypeOK'
           /\ sender'[r].began = sender[r].began /\ sender'[r].pc = sender[r].pc
           /\ sender'[r].row = sender[r].row /\ sender'[r].claims = sender[r].claims
           /\ sender'[r].to = sender[r].to \ {b}
           /\ \A p \in PushReplicas : p # r => sender'[p] = sender[p]
           /\ \A i \in Numbers, c \in Browsers :
                 \/ received'[i][c] = received[i][c]
                 \/ i = sender[r].row /\ c = b /\ received'[i][c] = received[i][c] + 1
<1> DEFINE to == sender[r].to \ {b}
           q == [sender[r] EXCEPT !.to = to, !.sent = sender[r].sent + 1]
           d == [sender[r] EXCEPT !.to = to, !.failed = sender[r].failed + 1]
           i == sender[r].row
<1>1. sender[r] \in Sender /\ to \in SUBSET Browsers
  BY DEF PushTypeOK, Sender
<1>a. sender[r].sent + 1 \in Nat /\ sender[r].failed + 1 \in Nat
  BY <1>1 DEF Sender
<1>2. /\ q \in Sender /\ q.pc = sender[r].pc /\ q.row = i /\ q.claims = sender[r].claims
      /\ q.began = sender[r].began /\ q.to = to
  <2> DEFINE n == sender[r].sent + 1
  <2>1. n \in Nat
    BY <1>a
  <2> HIDE DEF to, n
  <2>2. [sender[r] EXCEPT !.to = to, !.sent = n] \in Sender
    BY <1>1, <2>1 DEF Sender
  <2>3. q = [sender[r] EXCEPT !.to = to, !.sent = n]
    BY DEF n
  <2> HIDE DEF q
  <2> QED BY <1>1, <2>2, <2>3 DEF Sender
<1>3. /\ d \in Sender /\ d.pc = sender[r].pc /\ d.row = i /\ d.claims = sender[r].claims
      /\ d.began = sender[r].began /\ d.to = to
  <2> DEFINE n == sender[r].failed + 1
  <2>1. n \in Nat
    BY <1>a
  <2> HIDE DEF to, n
  <2>2. [sender[r] EXCEPT !.to = to, !.failed = n] \in Sender
    BY <1>1, <2>1 DEF Sender
  <2>3. d = [sender[r] EXCEPT !.to = to, !.failed = n]
    BY DEF n
  <2> HIDE DEF d
  <2> QED BY <1>1, <2>2, <2>3 DEF Sender
<1>4. \/ sender' = [sender EXCEPT ![r] = q] /\ received' = [received EXCEPT ![i][b] = @ + 1]
      \/ sender' = [sender EXCEPT ![r] = d] /\ received' = received
  BY DEF sendPush
<1> HIDE DEF q, d
<1>5. /\ sender' \in [PushReplicas -> Sender]
      /\ \/ sender'[r] = q
         \/ sender'[r] = d
      /\ \A p \in PushReplicas : p # r => sender'[p] = sender[p]
  BY <1>2, <1>3, <1>4, SenderMoves
<1>6. /\ received' \in [Numbers -> [Browsers -> Nat]]
      /\ \A k \in Numbers, c \in Browsers :
                 \/ received'[k][c] = received[k][c]
                 \/ k = i /\ c = b /\ received'[k][c] = received[k][c] + 1
  <2>1. received \in [Numbers -> [Browsers -> Nat]]
    BY DEF PushTypeOK
  <2>2. CASE received' = received
    BY <2>1, <2>2
  <2>3. CASE received' = [received EXCEPT ![i][b] = @ + 1]
    <3> HIDE DEF i
    <3>1. received[i] \in [Browsers -> Nat] /\ received[i][b] + 1 \in Nat
      BY <2>1 DEF i
    <3>2. [received[i] EXCEPT ![b] = received[i][b] + 1] \in [Browsers -> Nat]
      BY <3>1
    <3>3. received' = [received EXCEPT ![i] = [received[i] EXCEPT ![b] = received[i][b] + 1]]
      BY <2>3
    <3> QED BY <2>1, <3>1, <3>2, <3>3
  <2> QED BY <1>4, <2>2, <2>3
<1>7. DOMAIN subscribers' \subseteq Browsers /\ subscribers' \in [DOMAIN subscribers' -> Nat]
  <2>1. \/ subscribers' = RecordSendResult(b, TRUE) \/ subscribers' = RecordSendResult(b, FALSE)
        \/ subscribers' = Without(subscribers, {b}) \/ subscribers' = subscribers
    BY DEF sendPush
  <2>2. /\ LET f == RecordSendResult(b, TRUE) IN DOMAIN f \subseteq Browsers /\ f \in [DOMAIN f -> Nat]
        /\ LET f == RecordSendResult(b, FALSE) IN DOMAIN f \subseteq Browsers /\ f \in [DOMAIN f -> Nat]
        /\ LET f == Without(subscribers, {b}) IN DOMAIN f \subseteq Browsers /\ f \in [DOMAIN f -> Nat]
    BY SubscribersType
  <2>3. DOMAIN subscribers \subseteq Browsers /\ subscribers \in [DOMAIN subscribers -> Nat]
    BY DEF PushTypeOK
  <2> QED BY <2>1, <2>2, <2>3
<1>8. pushFaults' \in Nat
  <2>1. pushFaults' = pushFaults \/ pushFaults' = pushFaults + 1
    BY DEF sendPush, PushFault
  <2> QED BY <2>1 DEF PushTypeOK
<1>9. PushTypeOK'
  BY <1>5, <1>6, <1>7, <1>8 DEF sendPush, PushTypeOK
<1> QED BY <1>2, <1>3, <1>5, <1>6, <1>9

LEMMA CompleteType ==
    ASSUME PushTypeOK, NEW r \in PushReplicas, CompleteDelivery(r), sender[r].row \in Numbers
    PROVE  LET i == sender[r].row
           IN  /\ PushTypeOK'
               /\ \/ sender[r].claims = {i} /\ sender'[r] = SenderIdle
                  \/ /\ sender'[r].pc = "next" /\ sender'[r].claims = sender[r].claims \ {i}
                     /\ sender'[r].began = sender[r].began
               /\ \A p \in PushReplicas : p # r => sender'[p] = sender[p]
               /\ DOMAIN deliveries' = DOMAIN deliveries
               /\ \A k \in DOMAIN deliveries : deliveries'[k].created = deliveries[k].created
               /\ \A k \in DOMAIN deliveries : k # i => deliveries'[k] = deliveries[k]
               /\ \/ UNCHANGED resent /\ (i \in DOMAIN deliveries => deliveries'[i].status \in {"sent", "failed"})
                  \/ UNCHANGED deliveries /\ resent' = resent \cup {i} /\ i \in resent'
<1> DEFINE i == sender[r].row
           q == [sender[r] EXCEPT !.pc = "next", !.row = 0, !.claims = sender[r].claims \ {i}]
           st == IF sender[r].sent > 0 \/ sender[r].failed = 0 THEN "sent" ELSE "failed"
<1>1. sender[r] \in Sender /\ i \in {0} \cup Numbers /\ st \in {"sent", "failed"}
  BY DEF PushTypeOK, Sender
<1>2. q \in Sender /\ q.pc = "next" /\ q.claims = sender[r].claims \ {i} /\ q.began = sender[r].began
  <2> HIDE DEF i
  <2> QED BY <1>1 DEF Sender
<1>3. \/ sender[r].claims = {i} /\ sender' = [sender EXCEPT ![r] = SenderIdle]
      \/ sender' = [sender EXCEPT ![r] = q]
  BY DEF CompleteDelivery
<1>4. \/ UNCHANGED <<resent, pushFaults>> /\ i \in DOMAIN deliveries /\ deliveries' = [deliveries EXCEPT ![i].status = st]
      \/ UNCHANGED <<resent, pushFaults>> /\ i \notin DOMAIN deliveries /\ UNCHANGED deliveries
      \/ pushFaults' = pushFaults + 1 /\ resent' = resent \cup {i} /\ UNCHANGED deliveries
  BY DEF CompleteDelivery, PushFault
<1>5. /\ sender' \in [PushReplicas -> Sender]
      /\ (sender[r].claims = {i} /\ sender'[r] = SenderIdle) \/ sender'[r] = q
      /\ \A p \in PushReplicas : p # r => sender'[p] = sender[p]
  <2> HIDE DEF q, i
  <2> QED BY <1>2, <1>3, IdleType, SenderMoves
<1> HIDE DEF q, st
<1>6. /\ DOMAIN deliveries' = DOMAIN deliveries
      /\ deliveries' \in [DOMAIN deliveries -> DeliveryRow]
      /\ \A k \in DOMAIN deliveries : deliveries'[k].created = deliveries[k].created
      /\ \A k \in DOMAIN deliveries : k # i => deliveries'[k] = deliveries[k]
      /\ \/ UNCHANGED resent /\ (i \in DOMAIN deliveries => deliveries'[i].status \in {"sent", "failed"})
         \/ UNCHANGED deliveries /\ resent' = resent \cup {i} /\ i \in resent'
  <2>0. deliveries \in [DOMAIN deliveries -> DeliveryRow]
    BY DEF PushTypeOK
  <2>1. CASE i \in DOMAIN deliveries /\ deliveries' = [deliveries EXCEPT ![i].status = st] /\ UNCHANGED resent
    <3> HIDE DEF i
    <3>1. deliveries[i] \in DeliveryRow
      BY <2>0, <2>1
    <3>2. deliveries' = [deliveries EXCEPT ![i] = [deliveries[i] EXCEPT !.status = st]]
      BY <2>1
    <3>3. /\ [deliveries[i] EXCEPT !.status = st] \in DeliveryRow
          /\ [deliveries[i] EXCEPT !.status = st].status = st
          /\ [deliveries[i] EXCEPT !.status = st].created = deliveries[i].created
      BY <1>1, <3>1 DEF DeliveryRow
    <3> QED BY <1>1, <2>0, <2>1, <3>2, <3>3
  <2>2. CASE i \notin DOMAIN deliveries /\ UNCHANGED <<deliveries, resent>>
    BY <2>0, <2>2
  <2>3. CASE resent' = resent \cup {i} /\ UNCHANGED deliveries
    BY <2>0, <2>3
  <2> QED BY <1>4, <2>1, <2>2, <2>3
<1>7. resent' \subseteq Numbers /\ pushFaults' \in Nat
  BY <1>4 DEF PushTypeOK
<1>8. PushTypeOK'
  BY <1>5, <1>6, <1>7 DEF CompleteDelivery, PushTypeOK
<1> QED BY <1>2, <1>5, <1>6, <1>8

LEMMA LostType ==
    ASSUME PushTypeOK, NEW r \in PushReplicas, PassLost(r)
    PROVE  /\ PushTypeOK'
           /\ sender'[r] = SenderIdle /\ resent' = resent \cup sender[r].claims
           /\ \A p \in PushReplicas : p # r => sender'[p] = sender[p]
<1>1. sender' = [sender EXCEPT ![r] = SenderIdle] /\ sender[r] \in Sender
  BY DEF PassLost, PushTypeOK
<1>2. /\ sender' \in [PushReplicas -> Sender] /\ sender'[r] = SenderIdle
      /\ \A p \in PushReplicas : p # r => sender'[p] = sender[p]
  BY <1>1, IdleType, SenderMoves
<1>3. resent' \subseteq Numbers /\ pushFaults' \in Nat /\ resent' = resent \cup sender[r].claims
  BY <1>1 DEF PassLost, PushFault, PushTypeOK, Sender
<1> QED BY <1>2, <1>3 DEF PassLost, PushTypeOK

LEMMA PruneType ==
    ASSUME PushTypeOK, NEW r \in PushReplicas, prune(r)
    PROVE  /\ PushTypeOK'
           /\ DOMAIN deliveries' \subseteq DOMAIN deliveries
           /\ \A i \in DOMAIN deliveries' : deliveries'[i] = deliveries[i]
           /\ \A i \in DOMAIN deliveries \ DOMAIN deliveries' : Pruned(i)
<1>1. LET f == PruneSubscriptions IN DOMAIN f \subseteq Browsers /\ f \in [DOMAIN f -> Nat]
  BY SubscribersType DEF PruneSubscriptions
<1>2. DOMAIN subscribers' \subseteq Browsers /\ subscribers' \in [DOMAIN subscribers' -> Nat]
  BY <1>1 DEF prune
<1>3. /\ DOMAIN deliveries' = DOMAIN deliveries \ {i \in DOMAIN deliveries : Pruned(i)}
      /\ \A i \in DOMAIN deliveries' : deliveries'[i] = deliveries[i]
      /\ deliveries' = [i \in DOMAIN deliveries' |-> deliveries[i]]
  BY DEF prune, Without
<1>4. deliveries' \in [DOMAIN deliveries' -> DeliveryRow] /\ DOMAIN deliveries' \subseteq DOMAIN intervals
  BY <1>3 DEF PushTypeOK
<1> QED BY <1>2, <1>3, <1>4 DEF prune, PushTypeOK

-----------------------------------------------------------------------------
(* The invariant holds at first and is kept by every step.                 *)

LEMMA PushStarts ==
    PushInit => PushTypeOK /\ PushInv
<1> SUFFICES ASSUME PushInit PROVE PushTypeOK /\ PushInv
  OBVIOUS
<1> DEFINE x == [state |-> "up", trigger |-> FALSE, at |-> 0]
<1>1. x \in IntervalRow /\ x.at = 0
  BY DEF IntervalRow
<1>2. intervals = <<x>>
  BY DEF PushInit
<1> HIDE DEF x
<1>3. intervals \in Seq(IntervalRow) /\ DOMAIN intervals = {1} /\ intervals[1].at = 0
  BY <1>1, <1>2
<1>4. 1 \in Numbers
  BY PushAssumption DEF Numbers
<1>5. DOMAIN deliveries = {} /\ deliveries \in [DOMAIN deliveries -> DeliveryRow]
  BY DEF PushInit
<1>6. sender \in [PushReplicas -> Sender] /\ \A r \in PushReplicas : sender[r] = SenderIdle
  BY IdleType DEF PushInit
<1>7. /\ received \in [Numbers -> [Browsers -> Nat]]
      /\ \A i \in Numbers, b \in Browsers : received[i][b] = 0
  BY DEF PushInit
<1>8. PushTypeOK
  BY <1>3, <1>4, <1>5, <1>6, <1>7 DEF PushInit, PushTypeOK
<1>9. Passes
  BY <1>6, IdleType DEF Passes, Holds
<1>10. Ledger
  BY <1>5, <1>7 DEF Ledger
<1>11. \A i \in DOMAIN intervals : Once(i)
  BY <1>3, <1>4, <1>5, <1>6, <1>7, IdleType DEF Once, Holds
<1> QED BY <1>8, <1>9, <1>10, <1>11 DEF PushInv

LEMMA OpensKeeps ==
    ASSUME PushTypeOK, PushInv, NEW s \in {"up", "down", "suspect"}, NEW trigger \in BOOLEAN,
           TransitionOpens(s, trigger)
    PROVE  PushInv'
<1>0. PICK n : n = Len(intervals) + 1
  OBVIOUS
<1>1. /\ DOMAIN intervals' = DOMAIN intervals \cup {n} /\ n \notin DOMAIN intervals
      /\ \A i \in DOMAIN intervals : intervals'[i] = intervals[i]
      /\ DOMAIN intervals' \subseteq Numbers
  BY <1>0, OpensType DEF PushTypeOK
<1>2. UNCHANGED <<pushTime, deliveries, sender, received, resent>>
  BY DEF TransitionOpens
<1>3. DOMAIN deliveries \subseteq DOMAIN intervals
  BY DEF PushTypeOK
<1>4. Passes'
  BY <1>1, <1>2 DEF PushInv, Passes, Holds
<1>5. Ledger'
  BY <1>1, <1>2, <1>3 DEF PushInv, Ledger
<1>6. ASSUME NEW i \in DOMAIN intervals \ resent
      PROVE  Once(i)'
  <2>1. Once(i) /\ intervals'[i] = intervals[i]
    BY <1>1 DEF PushInv
  <2> QED BY <1>2, <2>1 DEF Once, Holds, Ahead, Old
<1>7. Once(n)'
  <2>1. n \notin DOMAIN deliveries /\ \A b \in Browsers : received[n][b] = 0
    BY <1>1, <1>3 DEF PushInv, Ledger
  <2>2. \A r \in PushReplicas : ~Holds(r, n)
    BY <1>1 DEF PushInv, Passes, Holds
  <2> QED BY <1>2, <2>1, <2>2 DEF Once, Holds
<1> QED BY <1>1, <1>2, <1>4, <1>5, <1>6, <1>7 DEF PushInv

\* Visitors and operators touch nothing of it.
LEMMA VisitorKeeps ==
    ASSUME PushInv, UNCHANGED <<pushTime, intervals, deliveries, sender, received, resent>>
    PROVE  PushInv'
<1>1. Passes'
  BY DEF PushInv, Passes, Holds
<1>2. Ledger'
  BY DEF PushInv, Ledger
<1>3. ASSUME NEW i \in DOMAIN intervals \ resent
      PROVE  Once(i)'
  <2>1. Once(i)
    BY DEF PushInv
  <2> QED BY <2>1 DEF Once, Holds, Ahead, Old
<1> QED BY <1>1, <1>2, <1>3 DEF PushInv

LEMMA TickKeeps ==
    ASSUME PushTypeOK, PushInv, PushTick
    PROVE  PushInv'
<1>1. /\ pushTime \in Nat /\ pushTime' = pushTime + 1
      /\ UNCHANGED <<intervals, deliveries, sender, received, resent>>
  BY DEF PushTick, PushTypeOK
<1>2. Passes'
  <2>1. ASSUME NEW r \in PushReplicas, sender[r].pc # "idle"
        PROVE  sender[r].began <= pushTime + 1 /\ pushTime + 1 <= sender[r].began + 1
    <3>1. sender[r].began \in Nat
      BY DEF PushTypeOK, Sender
    <3>2. sender[r].began <= pushTime /\ pushTime - sender[r].began < 1
      BY <2>1 DEF PushInv, Passes, PushTick
    <3> QED BY <1>1, <3>1, <3>2
  <2> QED BY <1>1, <2>1 DEF PushInv, Passes, Holds
<1>3. Ledger'
  BY <1>1 DEF PushInv, Ledger
<1>4. ASSUME NEW i \in DOMAIN intervals \ resent
      PROVE  Once(i)'
  <2>1. Once(i)
    BY DEF PushInv
  <2>2. intervals[i].at \in Nat
    BY IntervalsType
  <2>3. Old(i) => Old(i)'
    BY <1>1, <2>2, PushAssumption DEF Old
  <2>4. Ahead(i)' => Ahead(i)
    BY <1>1, <2>3 DEF Ahead
  <2> QED BY <1>1, <2>1, <2>4 DEF Once, Holds
<1> QED BY <1>1, <1>2, <1>3, <1>4 DEF PushInv

LEMMA ReconcileKeeps ==
    ASSUME PushTypeOK, PushInv, NEW r \in PushReplicas, reconcileNotifications(r)
    PROVE  PushInv'
<1>1. UNCHANGED <<pushTime, intervals, received, resent>> /\ sender[r].pc = "idle" /\ pushTime \in Nat
  BY DEF reconcileNotifications, PushTypeOK
<1>2. /\ sender'[r].pc = "claim" /\ sender'[r].began = pushTime
      /\ sender'[r].claims = sender[r].claims /\ sender[r].claims = {}
      /\ \A p \in PushReplicas : p # r => sender'[p] = sender[p]
  BY <1>1, ReconcileType DEF PushInv, Passes
<1>3. \A p \in PushReplicas : sender'[p].claims = sender[p].claims
  BY <1>2
<1>4. Passes'
  BY <1>1, <1>2 DEF PushInv, Passes, Holds
<1>5. /\ DOMAIN deliveries \subseteq DOMAIN deliveries'
      /\ \A i \in DOMAIN deliveries : deliveries'[i] = deliveries[i]
      /\ \A i \in DOMAIN deliveries' \ DOMAIN deliveries :
            i \in Notifiable /\ deliveries'[i].status = "pending" /\ deliveries'[i].created = pushTime
  BY ReconcileType
<1>6. \A i \in Notifiable : /\ i \in DOMAIN intervals /\ intervals[i].at <= pushTime /\ ~Old(i)
                            /\ i \notin DOMAIN deliveries
  <2> TAKE i \in Notifiable
  <2>1. i \in DOMAIN intervals /\ Eligible(i) /\ i \notin DOMAIN deliveries
    BY DEF Notifiable, Recorded
  <2>2. intervals[i].at \in Nat
    BY <2>1, IntervalsType
  <2> QED BY <1>1, <2>1, <2>2, PushAssumption DEF Eligible, Old
<1>7. Ledger'
  BY <1>1, <1>5, <1>6 DEF PushInv, Ledger
<1>8. ASSUME NEW i \in DOMAIN intervals \ resent
      PROVE  Once(i)'
  <2>1. Once(i)
    BY DEF PushInv
  <2>2. Ahead(i)' => Ahead(i)
    BY <1>1, <1>5, <1>6 DEF Ahead, Old
  <2>3. i \in DOMAIN deliveries' /\ deliveries'[i].status = "sending"
          => i \in DOMAIN deliveries /\ deliveries[i].status = "sending" /\ deliveries'[i] = deliveries[i]
    BY <1>5
  <2>4. i \notin DOMAIN deliveries /\ i \in DOMAIN deliveries' => \A p \in PushReplicas : ~Holds(p, i)
    BY <1>5, <1>6, <2>1 DEF Once, Ahead
  <2>5. \A p \in PushReplicas : Holds(p, i) => sender'[p] = sender[p]
    BY <1>2 DEF Holds
  <2>6. \A p \in PushReplicas : Holds(p, i)' <=> Holds(p, i)
    BY <1>3 DEF Holds
  <2>7. i \in DOMAIN deliveries' /\ deliveries'[i].status = "sending"
          => \E p \in PushReplicas : Holds(p, i)' /\ deliveries'[i].claimed >= sender'[p].began
    BY <2>1, <2>3, <2>5, <2>6 DEF Once
  <2>8. ASSUME NEW p \in PushReplicas, Holds(p, i)'
        PROVE  /\ \A q \in PushReplicas : Holds(q, i)' => q = p
               /\ i \in DOMAIN deliveries' => deliveries'[i].status = "sending"
               /\ \A b \in Browsers : received'[i][b] # 0 =>
                      sender'[p].pc = "send" /\ sender'[p].row = i /\ b \notin sender'[p].to
    BY <1>1, <1>5, <2>1, <2>4, <2>5, <2>6, <2>8 DEF Once
  <2> QED BY <1>1, <2>1, <2>2, <2>6, <2>7, <2>8 DEF Once
<1> QED BY <1>1, <1>4, <1>7, <1>8 DEF PushInv

\* A row is claimed only when nobody holds it: the claim of a pass that is still
\* running cannot be stale.
LEMMA ClaimKeeps ==
    ASSUME PushTypeOK, PushInv, NEW r \in PushReplicas, ClaimDeliveries(r)
    PROVE  PushInv'
<1>1. UNCHANGED <<pushTime, intervals, received, resent>> /\ sender[r].pc = "claim" /\ pushTime \in Nat
  BY DEF ClaimDeliveries, PushTypeOK
<1>2. /\ Claims \subseteq DOMAIN deliveries /\ DOMAIN deliveries \subseteq DOMAIN intervals
      /\ DOMAIN deliveries' = DOMAIN deliveries
      /\ \A i \in DOMAIN deliveries : deliveries'[i].created = deliveries[i].created
      /\ \A i \in DOMAIN deliveries \ Claims : deliveries'[i] = deliveries[i]
      /\ \A i \in Claims : deliveries'[i].status = "sending" /\ deliveries'[i].claimed = pushTime
      /\ \A p \in PushReplicas : p # r => sender'[p] = sender[p]
  BY ClaimType DEF PushTypeOK, Claims
<1>3. /\ sender'[r].claims = Claims
      /\ \/ sender'[r].pc = "idle" /\ Claims = {}
         \/ sender'[r].pc = "next" /\ sender'[r].began = sender[r].began
  BY ClaimType, IdleType
<1>4. sender[r].claims = {} /\ sender[r].began <= pushTime /\ pushTime <= sender[r].began + 1
  BY <1>1 DEF PushInv, Passes
<1>5. Passes'
  <2>1. ASSUME NEW p \in PushReplicas, p # r
        PROVE  /\ sender'[p].pc = "idle" => sender'[p].claims = {}
               /\ sender'[p].pc = "claim" => sender'[p].claims = {}
               /\ sender'[p].pc = "send" => sender'[p].row \in sender'[p].claims
               /\ sender'[p].pc # "idle" => /\ sender'[p].began <= pushTime'
                                            /\ pushTime' <= sender'[p].began + 1
               /\ sender'[p].claims \subseteq DOMAIN intervals'
    BY <1>1, <1>2, <2>1 DEF PushInv, Passes, Holds
  <2> QED BY <1>1, <1>2, <1>3, <1>4, <2>1 DEF Passes, Holds
<1>6. Ledger'
  BY <1>1, <1>2 DEF PushInv, Ledger
<1>7. ASSUME NEW i \in DOMAIN intervals \ resent, i \in Claims
      PROVE  Once(i)'
  <2>1. Once(i) /\ i \in DOMAIN deliveries /\ Claimable(i) /\ deliveries[i] \in DeliveryRow
    BY <1>2, <1>7, DeliveriesType DEF PushInv, Claims
  <2>2. CASE deliveries[i].status = "sending" /\ deliveries[i].claimed + ClaimStaleAfter < pushTime
    <3>1. PICK p \in PushReplicas : Holds(p, i) /\ deliveries[i].claimed >= sender[p].began
      BY <2>1, <2>2 DEF Once
    <3>2. sender[p].pc # "idle" /\ pushTime <= sender[p].began + 1
      BY <3>1 DEF PushInv, Passes, Holds
    <3>3. sender[p].began \in Nat /\ deliveries[i].claimed \in Nat
      BY <2>1 DEF PushTypeOK, Sender, DeliveryRow
    <3> QED BY <1>1, <2>2, <3>1, <3>2, <3>3, PushAssumption
  <2>3. CASE deliveries[i].status = "pending"
    <3>1. (\A p \in PushReplicas : ~Holds(p, i)) /\ \A b \in Browsers : received[i][b] = 0
      BY <2>1, <2>3 DEF Once, Ahead
    <3>2. \A p \in PushReplicas : i \in sender'[p].claims <=> p = r
      BY <1>2, <1>3, <1>7, <3>1 DEF Holds
    <3>3. deliveries'[i].status = "sending" /\ deliveries'[i].claimed = pushTime
      BY <1>2, <1>7
    <3>4. pushTime >= sender'[r].began
      <4>1. sender[r].began \in Nat /\ sender'[r].began = sender[r].began
        BY <1>3, <1>7 DEF PushTypeOK, Sender
      <4> QED BY <1>1, <1>4, <4>1
    <3> QED BY <1>1, <1>2, <2>1, <3>1, <3>2, <3>3, <3>4 DEF Once, Holds, Ahead
  <2> QED BY <2>1, <2>2, <2>3 DEF Claimable
<1>8. ASSUME NEW i \in DOMAIN intervals \ resent, i \notin Claims
      PROVE  Once(i)'
  <2>1. Once(i)
    BY DEF PushInv
  <2>2. i \in DOMAIN deliveries => deliveries'[i] = deliveries[i]
    BY <1>2, <1>8
  <2>3. /\ \A p \in PushReplicas : Holds(p, i)' <=> Holds(p, i)
        /\ \A p \in PushReplicas : Holds(p, i) => sender'[p] = sender[p]
    BY <1>2, <1>3, <1>4, <1>8 DEF Holds
  <2> QED BY <1>1, <1>2, <2>1, <2>2, <2>3 DEF Once, Ahead, Old
<1> QED BY <1>1, <1>5, <1>6, <1>7, <1>8 DEF PushInv

LEMMA DeliverKeeps ==
    ASSUME PushTypeOK, PushInv, NEW r \in PushReplicas, NEW k \in DOMAIN deliveries, deliver(r, k)
    PROVE  PushInv'
<1>1. /\ UNCHANGED <<pushTime, intervals, deliveries, received>>
      /\ sender[r].pc = "next" /\ k \in sender[r].claims
  BY DEF deliver
<1>2. /\ sender'[r].began = sender[r].began
      /\ \/ /\ sender'[r].pc = "send" /\ sender'[r].row = k /\ sender'[r].claims = sender[r].claims
            /\ UNCHANGED resent
         \/ /\ sender'[r].pc = "next" /\ sender'[r].claims = sender[r].claims \ {k}
            /\ resent' = resent \cup {k}
      /\ \A p \in PushReplicas : p # r => sender'[p] = sender[p]
  BY <1>1, DeliverType
<1>3. Passes'
  BY <1>1, <1>2 DEF PushInv, Passes, Holds
<1>4. Ledger'
  BY <1>1 DEF PushInv, Ledger
<1>5. ASSUME NEW i \in DOMAIN intervals, i \notin resent'
      PROVE  Once(i)'
  <2>1. Once(i)
    BY <1>2, <1>5 DEF PushInv
  <2>2. /\ \A p \in PushReplicas : Holds(p, i)' <=> Holds(p, i)
        /\ \A p \in PushReplicas : sender'[p].began = sender[p].began
    BY <1>2, <1>5 DEF Holds
  <2>3. Holds(r, i) => \A b \in Browsers : received[i][b] = 0
    BY <1>1, <2>1 DEF Once
  <2> QED BY <1>1, <1>2, <2>1, <2>2, <2>3 DEF Once, Ahead, Old
<1> QED BY <1>1, <1>3, <1>4, <1>5 DEF PushInv

\* The row a pass is at.
LEMMA RowAtHand ==
    ASSUME PushTypeOK, PushInv, NEW r \in PushReplicas, sender[r].pc = "send"
    PROVE  Holds(r, sender[r].row) /\ sender[r].row \in DOMAIN intervals /\ sender[r].row \in Numbers
BY DEF PushInv, Passes, Holds, PushTypeOK

LEMMA SendKeeps ==
    ASSUME PushTypeOK, PushInv, NEW r \in PushReplicas, NEW b \in Browsers, sendPush(r, b)
    PROVE  PushTypeOK' /\ PushInv'
<1>0. PICK k : k = sender[r].row
  OBVIOUS
<1>1. /\ UNCHANGED <<pushTime, intervals, deliveries, resent>>
      /\ sender[r].pc = "send" /\ b \in sender[r].to
  BY DEF sendPush
<1>2. Holds(r, k) /\ k \in DOMAIN intervals /\ k \in Numbers
  BY <1>0, <1>1, RowAtHand
<1>3. /\ PushTypeOK'
      /\ sender'[r].began = sender[r].began /\ sender'[r].pc = "send"
      /\ sender'[r].row = k /\ sender'[r].claims = sender[r].claims
      /\ sender'[r].to = sender[r].to \ {b}
      /\ \A p \in PushReplicas : p # r => sender'[p] = sender[p]
      /\ \A i \in Numbers, c \in Browsers :
            \/ received'[i][c] = received[i][c]
            \/ i = k /\ c = b /\ received'[i][c] = received[i][c] + 1
  BY <1>0, <1>1, <1>2, SendType
<1>4. Passes'
  BY <1>0, <1>1, <1>3 DEF PushInv, Passes, Holds
<1>5. Ledger'
  BY <1>1, <1>2, <1>3 DEF PushInv, Ledger
<1>6. \A p \in PushReplicas : sender'[p].claims = sender[p].claims /\ sender'[p].began = sender[p].began
  BY <1>3
<1>7. ASSUME NEW i \in DOMAIN intervals \ resent
      PROVE  Once(i)'
  <2>1. Once(i) /\ i \in Numbers
    BY DEF PushInv, PushTypeOK
  <2>2. \A p \in PushReplicas : Holds(p, i)' <=> Holds(p, i)
    BY <1>6 DEF Holds
  <2>3. CASE i # k
    <3>1. \A c \in Browsers : received'[i][c] = received[i][c]
      BY <1>3, <2>1, <2>3
    <3>2. Holds(r, i) => \A c \in Browsers : received[i][c] = 0
      BY <1>0, <2>1, <2>3 DEF Once
    <3> QED BY <1>1, <1>3, <1>6, <2>1, <2>2, <3>1, <3>2 DEF Once, Ahead, Old
  <2>4. CASE i = k
    <3>1. received[k][b] = 0
      BY <1>1, <1>2, <2>1, <2>4 DEF Once
    <3>2. \A p \in PushReplicas : Holds(p, k) => p = r
      BY <1>2, <2>1, <2>4 DEF Once
    <3>3. ~Ahead(k)
      BY <1>2, <2>1, <2>4 DEF Once
    <3>4. ~(Ahead(k)')
      BY <1>1, <3>3 DEF Ahead, Old
    <3>5. \A c \in Browsers : /\ received'[k][c] <= 1
                              /\ received'[k][c] # 0 => c \notin sender'[r].to
      <4> TAKE c \in Browsers
      <4>1. received[k][c] <= 1 /\ (received[k][c] # 0 => c \notin sender[r].to)
        BY <1>2, <2>1, <2>4 DEF Once
      <4>2. CASE c = b
        BY <1>3, <2>1, <2>4, <3>1, <4>2
      <4>3. CASE c # b
        BY <1>3, <2>1, <2>4, <4>1, <4>3
      <4> QED BY <4>2, <4>3
    <3>6. \A p \in PushReplicas : Holds(p, k)' =>
             /\ \A q \in PushReplicas : Holds(q, k)' => q = p
             /\ k \in DOMAIN deliveries' => deliveries'[k].status = "sending"
             /\ \A c \in Browsers : received'[k][c] # 0 =>
                   sender'[p].pc = "send" /\ sender'[p].row = k /\ c \notin sender'[p].to
      BY <1>1, <1>2, <1>3, <2>1, <2>2, <2>4, <3>2, <3>5 DEF Once
    <3>7. k \in DOMAIN deliveries' /\ deliveries'[k].status = "sending"
             => \E p \in PushReplicas : Holds(p, k)' /\ deliveries'[k].claimed >= sender'[p].began
      BY <1>1, <1>6, <2>1, <2>2, <2>4 DEF Once
    <3>8. Once(k)'
      BY <3>4, <3>5, <3>6, <3>7 DEF Once
    <3> QED BY <2>4, <3>8
  <2> QED BY <2>3, <2>4
<1> QED BY <1>1, <1>3, <1>4, <1>5, <1>7 DEF PushInv

LEMMA CompleteKeeps ==
    ASSUME PushTypeOK, PushInv, NEW r \in PushReplicas, CompleteDelivery(r)
    PROVE  PushTypeOK' /\ PushInv'
<1>0. PICK k : k = sender[r].row
  OBVIOUS
<1>1. UNCHANGED <<pushTime, intervals, received>> /\ sender[r].pc = "send"
  BY DEF CompleteDelivery
<1>2. Holds(r, k) /\ k \in DOMAIN intervals /\ k \in Numbers
  BY <1>0, <1>1, RowAtHand
<1>3. /\ PushTypeOK'
      /\ sender'[r].claims = sender[r].claims \ {k}
      /\ \/ sender'[r].pc = "idle" /\ sender[r].claims = {k}
         \/ sender'[r].pc = "next" /\ sender'[r].began = sender[r].began
      /\ \A p \in PushReplicas : p # r => sender'[p] = sender[p]
  BY <1>0, <1>1, <1>2, CompleteType, IdleType
<1>4. /\ DOMAIN deliveries' = DOMAIN deliveries
      /\ \A i \in DOMAIN deliveries : deliveries'[i].created = deliveries[i].created
      /\ \A i \in DOMAIN deliveries : i # k => deliveries'[i] = deliveries[i]
      /\ \/ UNCHANGED resent /\ (k \in DOMAIN deliveries => deliveries'[k].status \in {"sent", "failed"})
         \/ resent' = resent \cup {k}
  BY <1>0, <1>2, CompleteType
<1>5. Passes'
  BY <1>1, <1>3 DEF PushInv, Passes, Holds
<1>6. Ledger'
  BY <1>1, <1>4 DEF PushInv, Ledger
<1>7. ASSUME NEW i \in DOMAIN intervals, i \notin resent'
      PROVE  Once(i)'
  <2>1. Once(i)
    BY <1>4, <1>7 DEF PushInv
  <2>2. CASE i # k
    <3>1. i \in DOMAIN deliveries => deliveries'[i] = deliveries[i]
      BY <1>4, <2>2
    <3>2. \A p \in PushReplicas : Holds(p, i)' <=> Holds(p, i)
      BY <1>3, <2>2 DEF Holds
    <3>3. Holds(r, i) => \A b \in Browsers : received[i][b] = 0
      BY <1>0, <2>1, <2>2 DEF Once
    <3>4. Holds(r, i) => sender'[r].began = sender[r].began
      BY <1>3, <2>2 DEF Holds
    <3> QED BY <1>1, <1>3, <1>4, <2>1, <3>1, <3>2, <3>3, <3>4 DEF Once, Ahead, Old
  <2>3. CASE i = k
    <3>1. \A p \in PushReplicas : Holds(p, k) => p = r
      BY <1>2, <2>1, <2>3 DEF Once
    <3>2. \A p \in PushReplicas : ~(Holds(p, k)')
      BY <1>3, <3>1 DEF Holds
    <3>3. k \in DOMAIN deliveries => deliveries'[k].status \in {"sent", "failed"}
      BY <1>4, <1>7, <2>3
    <3>4. ~Ahead(k)
      BY <1>2, <2>1, <2>3 DEF Once
    <3>5. ~(Ahead(k)')
      BY <1>1, <1>4, <3>3, <3>4 DEF Ahead, Old
    <3> QED BY <1>1, <1>4, <2>1, <2>3, <3>2, <3>3, <3>5 DEF Once
  <2> QED BY <2>2, <2>3
<1> QED BY <1>1, <1>3, <1>5, <1>6, <1>7 DEF PushInv

LEMMA LostKeeps ==
    ASSUME PushTypeOK, PushInv, NEW r \in PushReplicas, PassLost(r)
    PROVE  PushInv'
<1>1. /\ UNCHANGED <<pushTime, intervals, deliveries, received>>
      /\ resent' = resent \cup sender[r].claims /\ sender'[r] = SenderIdle
      /\ \A p \in PushReplicas : p # r => sender'[p] = sender[p]
  BY LostType DEF PassLost
<1>2. Passes'
  BY <1>1, IdleType DEF PushInv, Passes, Holds
<1>3. Ledger'
  BY <1>1 DEF PushInv, Ledger
<1>4. ASSUME NEW i \in DOMAIN intervals, i \notin resent'
      PROVE  Once(i)'
  <2>1. Once(i) /\ ~Holds(r, i)
    BY <1>1, <1>4 DEF PushInv, Holds
  <2>2. /\ \A p \in PushReplicas : Holds(p, i)' <=> Holds(p, i)
        /\ \A p \in PushReplicas : Holds(p, i) => sender'[p] = sender[p]
    BY <1>1, <2>1, IdleType DEF Holds
  <2> QED BY <1>1, <2>1, <2>2 DEF Once, Ahead, Old
<1> QED BY <1>1, <1>2, <1>3, <1>4 DEF PushInv

\* What the prune forgets the reconciler no longer looks back at.
LEMMA PruneKeeps ==
    ASSUME PushTypeOK, PushInv, NEW r \in PushReplicas, prune(r)
    PROVE  PushInv'
<1>1. /\ UNCHANGED <<pushTime, intervals, sender, received, resent>> /\ pushTime \in Nat
      /\ DOMAIN deliveries' \subseteq DOMAIN deliveries
      /\ \A i \in DOMAIN deliveries' : deliveries'[i] = deliveries[i]
      /\ \A i \in DOMAIN deliveries \ DOMAIN deliveries' : Pruned(i)
  BY PruneType DEF prune, PushTypeOK
<1>2. \A i \in DOMAIN deliveries : Pruned(i) => Old(i)
  <2> SUFFICES ASSUME NEW i \in DOMAIN deliveries, Pruned(i) PROVE Old(i)
    OBVIOUS
  <2>1. i \in DOMAIN intervals /\ deliveries[i] \in DeliveryRow
    BY DeliveriesType DEF PushTypeOK
  <2>2. intervals[i].at \in Nat /\ deliveries[i].created \in Nat
    BY <2>1, IntervalsType DEF DeliveryRow
  <2>3. intervals[i].at <= deliveries[i].created
    BY DEF PushInv, Ledger
  <2> QED BY <1>1, <2>2, <2>3, PushAssumption DEF Pruned, Old
<1>3. Passes'
  BY <1>1 DEF PushInv, Passes, Holds
<1>4. Ledger'
  BY <1>1 DEF PushInv, Ledger
<1>5. ASSUME NEW i \in DOMAIN intervals \ resent
      PROVE  Once(i)'
  <2>1. Once(i)
    BY DEF PushInv
  <2>2. Ahead(i)' => Ahead(i)
    BY <1>1, <1>2 DEF Ahead, Old
  <2> QED BY <1>1, <2>1, <2>2 DEF Once, Holds
<1> QED BY <1>1, <1>3, <1>4, <1>5 DEF PushInv

LEMMA PushStep ==
    PushTypeOK /\ PushInv /\ [PushNext]_pushVars => PushTypeOK' /\ PushInv'
<1> SUFFICES ASSUME PushTypeOK, PushInv, [PushNext]_pushVars
             PROVE  PushTypeOK' /\ PushInv'
  OBVIOUS
<1>1. ASSUME NEW s \in {"up", "down", "suspect"}, NEW trigger \in BOOLEAN, TransitionOpens(s, trigger)
      PROVE  PushTypeOK' /\ PushInv'
  BY <1>1, OpensType, OpensKeeps
<1>2. CASE EditPage
  BY <1>2, VisitorType, VisitorKeeps DEF EditPage
<1>3. ASSUME NEW b \in Browsers, HandlePushSubscribe(b) \/ HandlePushUnsubscribe(b)
      PROVE  PushTypeOK' /\ PushInv'
  <2>1. UNCHANGED <<pushTime, intervals, deliveries, sender, received, resent>>
    BY <1>3 DEF HandlePushSubscribe, HandlePushUnsubscribe, Subscribe, Unsubscribe
  <2> QED BY <1>3, <2>1, VisitorType, VisitorKeeps
<1>4. ASSUME NEW r \in PushReplicas, reconcileNotifications(r)
      PROVE  PushTypeOK' /\ PushInv'
  BY <1>4, ReconcileType, ReconcileKeeps
<1>5. ASSUME NEW r \in PushReplicas, ClaimDeliveries(r)
      PROVE  PushTypeOK' /\ PushInv'
  BY <1>5, ClaimType, ClaimKeeps
<1>6. ASSUME NEW r \in PushReplicas, CompleteDelivery(r)
      PROVE  PushTypeOK' /\ PushInv'
  BY <1>6, CompleteKeeps
<1>7. ASSUME NEW r \in PushReplicas, PassLost(r)
      PROVE  PushTypeOK' /\ PushInv'
  BY <1>7, LostType, LostKeeps
<1>8. ASSUME NEW r \in PushReplicas, prune(r)
      PROVE  PushTypeOK' /\ PushInv'
  BY <1>8, PruneType, PruneKeeps
<1>9. ASSUME NEW r \in PushReplicas, NEW i \in DOMAIN deliveries, deliver(r, i)
      PROVE  PushTypeOK' /\ PushInv'
  BY <1>9, DeliverType, DeliverKeeps
<1>10. ASSUME NEW r \in PushReplicas, NEW b \in Browsers, sendPush(r, b)
       PROVE  PushTypeOK' /\ PushInv'
  BY <1>10, SendKeeps
<1>11. CASE PushTick
  BY <1>11, VisitorType, TickKeeps
<1>12. CASE UNCHANGED pushVars
  <2>1. UNCHANGED <<pushTime, intervals, deliveries, sender, received, resent>>
    BY <1>12 DEF pushVars
  <2>2. PushTypeOK'
    BY <1>12 DEF pushVars, PushTypeOK
  <2> QED BY <2>1, <2>2, VisitorKeeps
<1> QED BY <1>1, <1>2, <1>3, <1>4, <1>5, <1>6, <1>7, <1>8, <1>9, <1>10, <1>11, <1>12 DEF PushNext

-----------------------------------------------------------------------------
(* The theorems.                                                           *)

\* The rows of the ledger, the subscriptions and the senders' passes keep the
\* shape the statements of the push sender and its store give them.
THEOREM PushTypeCorrect == PushSpec => []PushTypeOK
<1>1. PushTypeOK /\ PushInv /\ [PushNext]_pushVars => PushTypeOK' /\ PushInv'
  BY PushStep
<1> QED BY <1>1, PushStarts, PTL DEF PushSpec

\* Whatever the number of replicas, a browser is told of a transition once unless
\* the claim on its row was lost: ClaimDeliveries takes a row only when the pass
\* that held it is over, and the ledger forgets a row only when
\* reconcileNotifications no longer looks back at its interval.
THEOREM TransitionsAreToldOnce == PushSpec => []ToldOnce
<1>1. PushTypeOK /\ PushInv /\ [PushNext]_pushVars => PushTypeOK' /\ PushInv'
  BY PushStep
<1>2. PushInv => ToldOnce
  BY DEF PushInv, Once, ToldOnce
<1> QED BY <1>1, <1>2, PushStarts, PTL DEF PushSpec
=============================================================================
