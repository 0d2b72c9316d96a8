------------------------ MODULE ParameterCacheProofs ------------------------
(* Theorems about ParameterCache, for every number of parameters, loads,    *)
(* writes and faults.  The inductive invariant adds to CacheWasReadable what *)
(* a load under way has collected: the part of the answer it has read was   *)
(* readable since it began, and the page in flight continues it.            *)
EXTENDS ParameterCache, TLAPS

Current(p, c, from) == \E i \in from .. Len(hist) : c = hist[i][p]

\* What an idle load holds.
IdleOK(l) == load[l].phase = "idle" => load[l] = IdleLoad

\* What a load that is not idle has read so far.
GotOK(l) ==
    load[l].phase # "idle" =>
        /\ load[l].start \in 1 .. Len(hist)
        /\ \A p \in Param :
              IF p <= load[l].cursor
              THEN Current(p, load[l].got[p], load[l].start)
              ELSE load[l].got[p] = Absent

\* The page on its way back to a load.
PageOK(l) ==
    load[l].phase = "answered" =>
        /\ \A p \in Param :
              IF load[l].cursor < p /\ p <= load[l].reach
              THEN Current(p, load[l].page[p], load[l].start)
              ELSE load[l].page[p] = Absent
        /\ load[l].cursor < load[l].reach
        /\ ~load[l].more => \A p \in Param :
              load[l].reach < p => Current(p, Absent, load[l].start)
        /\ load[l].page = Nothing /\ load[l].more => EmptyPages

LoadOK(l) == IdleOK(l) /\ GotOK(l) /\ PageOK(l)

LoadsOK == \A l \in Load : LoadOK(l)

DownOK == ~up => boot = NoLoad /\ load = [l \in Load |-> IdleLoad]

IInv == TypeOK /\ LoadsOK /\ DownOK /\ CacheWasReadable

-----------------------------------------------------------------------------
(* Types.                                                                   *)

LEMMA SnapshotFacts ==
    /\ Nothing \in Snapshot
    /\ IdleLoad \in LoadState
    /\ [l \in Load |-> IdleLoad] \in [Load -> LoadState]
    /\ \A s \in Snapshot : newParamMapper(s) \in Snapshot
    /\ \A s, t \in Snapshot : Joined(s, t) \in Snapshot
  <1>1. Nothing \in Snapshot
    BY DEF Nothing, Snapshot, Content
  <1>2. IdleLoad \in LoadState /\ [l \in Load |-> IdleLoad] \in [Load -> LoadState]
    BY <1>1, NParamAssumption DEF IdleLoad, LoadState, Phase
  <1>3. ASSUME NEW s \in Snapshot PROVE newParamMapper(s) \in Snapshot
    BY DEF newParamMapper, Snapshot, Content
  <1>4. ASSUME NEW s \in Snapshot, NEW t \in Snapshot PROVE Joined(s, t) \in Snapshot
    BY DEF Joined, Snapshot, Content
  <1> QED
    BY <1>1, <1>2, <1>3, <1>4

LEMMA InitTypeOK == Init => TypeOK
  <1> SUFFICES ASSUME Init PROVE TypeOK
    OBVIOUS
  <1>1. PICK s \in Snapshot : hist = <<s>>
    BY DEF Init
  <1>2. hist \in Seq(Snapshot) /\ Len(hist) = 1
    BY <1>1
  <1>3. load \in [Load -> LoadState] /\ parameters \in Snapshot /\ newParameters \in Snapshot
    BY SnapshotFacts DEF Init
  <1>4. up \in BOOLEAN /\ boot \in Load \union {NoLoad}
    BY DEF Init
  <1>5. asOf \in Nat /\ acked \in Nat /\ faults \in 0 .. MaxFaults
    BY <1>2, BoundsAssumption DEF Init
  <1> QED
    BY <1>2, <1>3, <1>4, <1>5 DEF TypeOK

LEMMA ExitTypeOK == Exit /\ TypeOK /\ UNCHANGED hist /\ faults' \in 0 .. MaxFaults => TypeOK'
  <1> SUFFICES ASSUME Exit, TypeOK, UNCHANGED hist, faults' \in 0 .. MaxFaults
               PROVE  TypeOK'
    OBVIOUS
  <1>1. load' \in [Load -> LoadState]
    BY SnapshotFacts DEF Exit
  <1>2. parameters' \in Snapshot /\ newParameters' \in Snapshot
    BY SnapshotFacts DEF Exit
  <1>3. hist' \in Seq(Snapshot) /\ Len(hist') >= 1
    BY DEF TypeOK
  <1>4. up' \in BOOLEAN /\ boot' \in Load \union {NoLoad}
    BY DEF Exit
  <1>5. asOf' \in Nat /\ acked' \in Nat
    BY <1>3 DEF Exit
  <1> QED
    BY <1>1, <1>2, <1>3, <1>4, <1>5 DEF TypeOK

LEMMA RejectTypeOK ==
    ASSUME TypeOK, NEW l \in Load, NEW s \in Snapshot, NEW since \in Nat,
           Reject(l, s, since), UNCHANGED <<hist, faults>>
    PROVE  TypeOK'
  <1>1. CASE l = boot
    BY <1>1, ExitTypeOK DEF Reject, TypeOK
  <1>2. CASE l # boot
    BY <1>2, SnapshotFacts DEF Reject, TypeOK
  <1> QED
    BY <1>1, <1>2

LEMMA NextTypeOK == TypeOK /\ [Next]_vars => TypeOK'
  <1> SUFFICES ASSUME TypeOK, [Next]_vars PROVE TypeOK'
    OBVIOUS
  <1> USE DEF TypeOK
  <1>1. ASSUME NEW p \in Param, NEW c \in Content, Write(p, c) PROVE TypeOK'
    <2>1. store \in Snapshot
      BY DEF store
    <2>2. [store EXCEPT ![p] = c] \in Snapshot
      BY <2>1 DEF Snapshot
    <2>3. hist' \in Seq(Snapshot) /\ Len(hist') = Len(hist) + 1
      BY <1>1, <2>2 DEF Write
    <2> QED
      BY <1>1, <2>3 DEF Write
  <1>2. ASSUME NEW l \in Load, NEW c \in Param, Serve(l, c) PROVE TypeOK'
    <2> DEFINE page == [q \in Param |->
                          IF load[l].cursor < q /\ q <= c THEN store[q] ELSE Absent]
               more == \E q \in Param : c < q /\ store[q] # Absent
    <2>1. store \in Snapshot
      BY DEF store
    <2>2. page \in Snapshot
      BY <2>1 DEF Snapshot, Content
    <2>3. c \in 0 .. NParam /\ more \in BOOLEAN
      BY NParamAssumption DEF Param
    <2>4. load' = [load EXCEPT ![l] = [@ EXCEPT !.phase = "answered", !.reach = c,
                                               !.page = page, !.more = more]]
      BY <1>2 DEF Serve
    <2> HIDE DEF page, more
    <2>5. load' \in [Load -> LoadState]
      BY <2>2, <2>3, <2>4 DEF LoadState, Phase
    <2> QED
      BY <1>2, <2>5 DEF Serve
  <1>3. ASSUME NEW l \in Load, Fail(l) PROVE TypeOK'
    <2>1. load' \in [Load -> LoadState]
      BY <1>3 DEF Fail, LoadState, Phase
    <2>2. faults' \in 0 .. MaxFaults
      BY <1>3, BoundsAssumption DEF Fail
    <2> QED
      BY <1>3, <2>1, <2>2 DEF Fail
  <1>4. ASSUME NEW l \in Load PROVE Ask(l) \in LoadState
    <2>1. Len(hist) \in Nat
      OBVIOUS
    <2> QED
      BY <2>1, SnapshotFacts, NParamAssumption DEF Ask, IdleLoad, LoadState, Phase
  <1>5. ASSUME NEW l \in Load, Start(l) PROVE TypeOK'
    BY <1>4, <1>5 DEF Start
  <1>6. ASSUME NEW l \in Load, Refresh(l) PROVE TypeOK'
    BY <1>4, <1>6 DEF Refresh
  <1>7. ASSUME NEW l \in Load
        PROVE  load[l] \in LoadState /\ Joined(load[l].got, load[l].page) \in Snapshot
    BY SnapshotFacts DEF LoadState
  <1>8. ASSUME NEW l \in Load, NextPage(l) PROVE TypeOK'
    <2>1. [Ask(l) EXCEPT !.start = load[l].start, !.cursor = load[l].reach,
                         !.got = Joined(load[l].got, load[l].page)] \in LoadState
      BY <1>4, <1>7 DEF LoadState
    <2> QED
      BY <1>8, <2>1 DEF NextPage
  <1>9. ASSUME NEW l \in Load, Finish(l) PROVE TypeOK'
    <2> DEFINE s == Joined(load[l].got, load[l].page)
    <2>1. s \in Snapshot /\ load[l].start \in Nat
      BY <1>7, <1>9 DEF LoadState, Finish
    <2>2. Commit(l, s) /\ UNCHANGED <<hist, faults>>
      BY <1>9 DEF Finish
    <2> HIDE DEF s
    <2>3. CASE ~GroupThrows(s) /\ TreeThrows(s)
      BY <2>1, <2>2, <2>3, RejectTypeOK DEF Commit
    <2>5. CASE GroupThrows(s)
      BY <2>2, <2>5, RejectTypeOK DEF Commit
    <2>4. CASE ~GroupThrows(s) /\ ~TreeThrows(s)
      <3>1. Accept(l, s)
        BY <2>2, <2>4 DEF Commit
      <3>2. newParamMapper(s) \in Snapshot /\ IdleLoad \in LoadState
        BY <2>1, SnapshotFacts
      <3> QED
        BY <2>1, <2>2, <3>1, <3>2 DEF Accept, Later
    <2> QED
      BY <2>3, <2>4, <2>5
  <1>10. ASSUME NEW l \in Load, GiveUp(l) PROVE TypeOK'
    BY <1>10, RejectTypeOK DEF GiveUp
  <1>11. ASSUME Kill PROVE TypeOK'
    BY <1>11, ExitTypeOK, BoundsAssumption DEF Kill
  <1>12. ASSUME UNCHANGED vars PROVE TypeOK'
    BY <1>12 DEF vars
  <1> QED
    BY <1>1, <1>2, <1>3, <1>5, <1>6, <1>8, <1>9, <1>10, <1>11, <1>12
    DEF Next, Process, Ssm

\* The state of the process keeps its types, whatever is written, refreshed,
\* failed or killed.
THEOREM TypeCorrect == Spec => []TypeOK
  <1>1. Init => TypeOK
    BY InitTypeOK
  <1>2. TypeOK /\ [Next]_vars => TypeOK'
    BY NextTypeOK
  <1> QED
    BY <1>1, <1>2, PTL DEF Spec

-----------------------------------------------------------------------------
(* The store only gains states, so what was read stays read.                *)

Grows ==
    /\ hist' \in Seq(Snapshot)
    /\ Len(hist') >= Len(hist)
    /\ \A i \in 1 .. Len(hist) : hist'[i] = hist[i]

LEMMA NextGrows == TypeOK /\ [Next]_vars => Grows
  <1> SUFFICES ASSUME TypeOK, [Next]_vars PROVE Grows
    OBVIOUS
  <1>1. CASE UNCHANGED hist
    BY <1>1 DEF Grows, TypeOK
  <1>2. ASSUME NEW p \in Param, NEW c \in Content, Write(p, c) PROVE Grows
    <2>1. [store EXCEPT ![p] = c] \in Snapshot
      BY DEF store, Snapshot, TypeOK
    <2> QED
      BY <1>2, <2>1 DEF Write, Grows, TypeOK
  <1>3. ASSUME NEW l \in Load, Process(l) \/ Ssm(l) PROVE UNCHANGED hist
    BY <1>3 DEF Process, Ssm, Start, Refresh, NextPage, Finish, GiveUp, Fail, Serve
  <1> QED
    BY <1>1, <1>2, <1>3 DEF Next, Kill, vars

LEMMA CurrentStays ==
    ASSUME TypeOK, Grows, NEW p, NEW c, NEW from \in Nat \ {0}, Current(p, c, from)
    PROVE  \E i \in from .. Len(hist') : c = hist'[i][p]
  <1>1. PICK i \in from .. Len(hist) : c = hist[i][p]
    BY DEF Current
  <1>2. i \in 1 .. Len(hist) /\ i \in from .. Len(hist')
    BY DEF Grows, TypeOK
  <1> QED
    BY <1>1, <1>2 DEF Grows

LEMMA ReadableStays ==
    ASSUME TypeOK, Grows, NEW s, NEW from \in Nat \ {0}, ReadableSince(s, from)
    PROVE  \A p \in Param : \E i \in from .. Len(hist') : s[p] = hist'[i][p]
  BY CurrentStays DEF ReadableSince, Current

\* A load nobody touches keeps what it has read, whatever the store does.
LEMMA LoadStays ==
    ASSUME TypeOK, Grows, NEW l \in Load, LoadOK(l), load'[l] = load[l]
    PROVE  LoadOK(l)'
  <1>1. IdleOK(l)'
    BY DEF LoadOK, IdleOK, IdleLoad, Nothing, Param
  <1>2. Len(hist) \in Nat /\ Len(hist') \in Nat /\ Len(hist') >= Len(hist)
    BY DEF Grows, TypeOK
  <1>3. GotOK(l)'
    <2> SUFFICES ASSUME load[l].phase # "idle" PROVE GotOK(l)'
      BY DEF GotOK
    <2>1. load[l].start \in Nat \ {0}
      BY <1>2 DEF LoadOK, GotOK
    <2>2. ASSUME NEW p \in Param, p <= load[l].cursor
          PROVE  Current(p, load[l].got[p], load[l].start)'
      <3>1. Current(p, load[l].got[p], load[l].start)
        BY <2>2 DEF LoadOK, GotOK
      <3>2. \E i \in load[l].start .. Len(hist') : load[l].got[p] = hist'[i][p]
        BY <2>1, <3>1, CurrentStays
      <3> QED
        BY <3>2 DEF Current
    <2>3. load'[l].start \in 1 .. Len(hist')
      BY <1>2 DEF LoadOK, GotOK
    <2> QED
      BY <2>2, <2>3 DEF LoadOK, GotOK
  <1>4. PageOK(l)'
    <2> SUFFICES ASSUME load[l].phase = "answered" PROVE PageOK(l)'
      BY DEF PageOK
    <2>1. load[l].start \in Nat \ {0}
      BY <1>2 DEF LoadOK, GotOK
    <2>2. ASSUME NEW p \in Param, load[l].cursor < p, p <= load[l].reach
          PROVE  Current(p, load[l].page[p], load[l].start)'
      <3>1. Current(p, load[l].page[p], load[l].start)
        BY <2>2 DEF LoadOK, PageOK
      <3>2. \E i \in load[l].start .. Len(hist') : load[l].page[p] = hist'[i][p]
        BY <2>1, <3>1, CurrentStays
      <3> QED
        BY <3>2 DEF Current
    <2>3. ASSUME NEW p \in Param, ~load[l].more, load[l].reach < p
          PROVE  Current(p, Absent, load[l].start)'
      <3>1. Current(p, Absent, load[l].start)
        BY <2>3 DEF LoadOK, PageOK
      <3>2. \E i \in load[l].start .. Len(hist') : Absent = hist'[i][p]
        BY <2>1, <3>1, CurrentStays
      <3> QED
        BY <3>2 DEF Current
    <2> QED
      BY <2>2, <2>3 DEF LoadOK, PageOK, Nothing, Param
  <1> QED
    BY <1>1, <1>3, <1>4 DEF LoadOK

-----------------------------------------------------------------------------
(* What a load holds once its page has been joined to what it had.          *)

LEMMA JoinedReads ==
    ASSUME TypeOK, NEW l \in Load, LoadOK(l), load[l].phase = "answered", NEW p \in Param
    PROVE  IF p <= load[l].reach
           THEN Current(p, Joined(load[l].got, load[l].page)[p], load[l].start)
           ELSE Joined(load[l].got, load[l].page)[p] = Absent
  <1> DEFINE j == Joined(load[l].got, load[l].page)[p]
  <1>1. j = IF load[l].page[p] # Absent THEN load[l].page[p] ELSE load[l].got[p]
    BY DEF Joined
  <1>2. p \in Int /\ load[l].cursor \in Int /\ load[l].reach \in Int
        /\ load[l].cursor < load[l].reach
    BY NParamAssumption DEF Param, TypeOK, LoadState, LoadOK, PageOK
  <1>3. CASE p <= load[l].cursor
    <2>1. load[l].page[p] = Absent /\ Current(p, load[l].got[p], load[l].start)
      BY <1>2, <1>3 DEF LoadOK, GotOK, PageOK
    <2>2. j = load[l].got[p] /\ p <= load[l].reach
      BY <1>1, <1>2, <1>3, <2>1
    <2> QED
      BY <2>1, <2>2
  <1>4. CASE load[l].cursor < p
    <2>1. load[l].got[p] = Absent
      BY <1>2, <1>4 DEF LoadOK, GotOK
    <2>2. j = load[l].page[p]
      BY <1>1, <2>1
    <2> QED
      BY <1>2, <1>4, <2>2 DEF LoadOK, PageOK
  <1> QED
    BY <1>2, <1>3, <1>4

\* A complete answer was readable since its load began, provided that SSM does
\* not give an empty page while parameters follow it.
LEMMA AnswerReadable ==
    ASSUME TypeOK, ~EmptyPages, NEW l \in Load, LoadOK(l),
           load[l].phase = "answered", LastPage(l)
    PROVE  ReadableSince(Joined(load[l].got, load[l].page), load[l].start)
  <1> DEFINE j == Joined(load[l].got, load[l].page)
  <1>1. ~load[l].more
    BY DEF LastPage, LoadOK, PageOK
  <1>2. ASSUME NEW p \in Param PROVE Current(p, j[p], load[l].start)
    <2>1. CASE p <= load[l].reach
      BY <2>1, JoinedReads
    <2>2. CASE load[l].reach < p
      <3>1. ~(p <= load[l].reach)
        BY <2>2, NParamAssumption DEF Param, TypeOK, LoadState
      <3>2. j[p] = Absent
        BY <3>1, JoinedReads
      <3>3. Current(p, Absent, load[l].start)
        BY <1>1, <2>2 DEF LoadOK, PageOK
      <3> QED
        BY <3>2, <3>3
    <2> QED
      BY <2>1, <2>2, NParamAssumption DEF Param, TypeOK, LoadState
  <1> QED
    BY <1>2 DEF ReadableSince, Current

-----------------------------------------------------------------------------
(* The inductive invariant.                                                 *)

LEMMA InitIInv == Init => IInv
  <1> SUFFICES ASSUME Init PROVE IInv
    OBVIOUS
  <1>1. TypeOK
    BY InitTypeOK
  <1>2. LoadsOK
    BY DEF Init, LoadsOK, LoadOK, IdleOK, GotOK, PageOK, IdleLoad
  <1>3. DownOK /\ CacheWasReadable
    BY DEF Init, DownOK, CacheWasReadable
  <1> QED
    BY <1>1, <1>2, <1>3 DEF IInv

LEMMA IdleLoadOK ==
    ASSUME NEW l \in Load, load'[l] = IdleLoad PROVE LoadOK(l)'
  <1>1. load'[l].phase = "idle" /\ IdleLoad = IdleLoad'
    BY DEF IdleLoad, Nothing, Param
  <1> QED
    BY <1>1 DEF LoadOK, IdleOK, GotOK, PageOK

LEMMA AskLoadOK ==
    ASSUME TypeOK, UNCHANGED hist, NEW l \in Load, load'[l] = Ask(l)
    PROVE  LoadOK(l)'
  <1>1. /\ load'[l].phase = "asked"
        /\ load'[l].start = Len(hist)
        /\ load'[l].cursor = 0
        /\ load'[l].got = Nothing
    BY DEF Ask, IdleLoad
  <1>2. Len(hist') \in Nat /\ Len(hist') >= 1 /\ Len(hist') = Len(hist)
    BY DEF TypeOK
  <1>3. load'[l].start \in 1 .. Len(hist')
    BY <1>1, <1>2
  <1>4. ASSUME NEW p \in Param
        PROVE ~(p <= load'[l].cursor) /\ load'[l].got[p] = Absent
    BY <1>1, NParamAssumption DEF Param, Nothing
  <1> QED
    BY <1>1, <1>3, <1>4 DEF LoadOK, IdleOK, GotOK, PageOK

LEMMA CacheStays ==
    ASSUME TypeOK, Grows, CacheWasReadable, UNCHANGED <<parameters, asOf>>
    PROVE  CacheWasReadable'
  <1>1. CASE asOf = 0
    BY <1>1 DEF CacheWasReadable, Nothing, Param
  <1>2. CASE asOf # 0
    <2>1. asOf \in Nat \ {0} /\ ReadableSince(parameters, asOf)
      BY <1>2 DEF TypeOK, CacheWasReadable
    <2>2. \A p \in Param : \E i \in asOf .. Len(hist') : parameters[p] = hist'[i][p]
      BY <2>1, ReadableStays
    <2> QED
      BY <1>2, <2>2 DEF CacheWasReadable, ReadableSince, Param
  <1> QED
    BY <1>1, <1>2

\* Every load but l is as it was, and l is sound: all loads are sound.
LEMMA OthersStay ==
    ASSUME IInv, Grows, NEW l \in Load, LoadOK(l)',
           \A k \in Load \ {l} : load'[k] = load[k]
    PROVE  LoadsOK'
  <1>1. ASSUME NEW k \in Load, k # l PROVE LoadOK(k)'
    BY <1>1, LoadStays DEF IInv, LoadsOK
  <1> QED
    BY <1>1 DEF LoadsOK

LEMMA ExitKeeps ==
    ASSUME Exit PROVE LoadsOK' /\ DownOK' /\ CacheWasReadable'
  <1>1. IdleLoad = IdleLoad' /\ Nothing = Nothing'
    BY DEF IdleLoad, Nothing, Param
  <1>2. LoadsOK'
    BY IdleLoadOK DEF Exit, LoadsOK
  <1>3. DownOK' /\ CacheWasReadable'
    BY <1>1 DEF Exit, DownOK, CacheWasReadable
  <1> QED
    BY <1>2, <1>3

\* A rejected load leaves the cache readable when `params` is.
LEMMA RejectKeeps ==
    ASSUME IInv, UNCHANGED hist, Grows, NEW l \in Load, load[l].phase # "idle",
           NEW s, NEW since, Reject(l, s, since),
           IF since = 0 THEN s = Nothing ELSE ReadableSince(s, since)
    PROVE  LoadsOK' /\ DownOK' /\ CacheWasReadable'
  <1>1. CASE l = boot
    BY <1>1, ExitKeeps DEF Reject
  <1>2. CASE l # boot
    <2>1. /\ load' = [load EXCEPT ![l] = IdleLoad]
          /\ parameters' = s /\ asOf' = since
          /\ UNCHANGED <<up, boot>>
      BY <1>2 DEF Reject
    <2>2. LoadsOK'
      BY <2>1, IdleLoadOK, OthersStay DEF IInv, TypeOK
    <2>3. up
      BY DEF IInv, DownOK, IdleLoad
    <2>4. CacheWasReadable'
      BY <2>1 DEF CacheWasReadable, ReadableSince, Nothing, Param
    <2> QED
      BY <2>1, <2>2, <2>3, <2>4 DEF DownOK
  <1> QED
    BY <1>1, <1>2

LEMMA NextIInv ==
    ASSUME ~EmptyPages, IInv, [Next]_vars PROVE IInv'
  <1>1. TypeOK /\ TypeOK' /\ Grows
    BY NextTypeOK, NextGrows DEF IInv
  <1> SUFFICES LoadsOK' /\ DownOK' /\ CacheWasReadable'
    BY <1>1 DEF IInv
  <1> USE <1>1
  <1>2. ASSUME UNCHANGED <<up, boot, load, parameters, asOf>>
        PROVE  LoadsOK' /\ DownOK' /\ CacheWasReadable'
    <2>1. LoadsOK'
      BY <1>2, LoadStays DEF IInv, LoadsOK
    <2>2. DownOK' /\ CacheWasReadable'
      BY <1>2, CacheStays DEF IInv, DownOK, IdleLoad, Nothing, Param
    <2> QED
      BY <2>1, <2>2
  \* A load moves on without touching the maps.
  <1>3. ASSUME NEW l \in Load, NEW r, load' = [load EXCEPT ![l] = r], LoadOK(l)',
               UNCHANGED <<parameters, asOf>>, up'
        PROVE  LoadsOK' /\ DownOK' /\ CacheWasReadable'
    BY <1>3, OthersStay, CacheStays DEF IInv, TypeOK, DownOK
  <1>4. ASSUME NEW l \in Load, load[l].phase # "idle" PROVE up
    BY <1>4 DEF IInv, DownOK, IdleLoad
  <1>5. ASSUME NEW l \in Load, NEW c \in Param, Serve(l, c)
        PROVE  LoadsOK' /\ DownOK' /\ CacheWasReadable'
    <2> DEFINE page == [q \in Param |->
                          IF load[l].cursor < q /\ q <= c THEN store[q] ELSE Absent]
               more == \E q \in Param : c < q /\ store[q] # Absent
               r == [load[l] EXCEPT !.phase = "answered", !.reach = c,
                                    !.page = page, !.more = more]
    <2>1. /\ load[l].phase = "asked"
          /\ load[l].cursor < c
          /\ page = Nothing /\ more => EmptyPages
          /\ load' = [load EXCEPT ![l] = r]
          /\ UNCHANGED <<hist, up, parameters, asOf>>
      BY <1>5 DEF Serve
    <2>2. load'[l] = r
      BY <2>1 DEF TypeOK
    <2>3. /\ load'[l].phase = "answered" /\ load'[l].start = load[l].start
          /\ load'[l].cursor = load[l].cursor /\ load'[l].got = load[l].got
          /\ load'[l].reach = c /\ load'[l].page = page /\ load'[l].more = more
      BY <2>2 DEF TypeOK, LoadState
    <2>4. load[l].start \in 1 .. Len(hist)
      BY <2>1 DEF IInv, LoadsOK, LoadOK, GotOK
    <2>5. ASSUME NEW q \in Param PROVE Current(q, store[q], load[l].start)
      BY <2>4 DEF Current, store, TypeOK
    <2>6. GotOK(l)'
      BY <2>1, <2>3 DEF IInv, LoadsOK, LoadOK, GotOK, Current
    <2>7. PageOK(l)'
      <3>1. ASSUME NEW p \in Param
            PROVE  IF load[l].cursor < p /\ p <= c
                   THEN Current(p, page[p], load[l].start)
                   ELSE page[p] = Absent
        BY <2>5
      <3>2. ASSUME ~more, NEW p \in Param, c < p
            PROVE  Current(p, Absent, load[l].start)
        BY <2>5, <3>2
      <3> HIDE DEF page, more, r
      <3>3. Nothing' = Nothing
        BY DEF Nothing, Param
      <3> QED
        BY <2>1, <2>3, <3>1, <3>2, <3>3 DEF PageOK, Current
    <2>8. IdleOK(l)'
      BY <2>3 DEF IdleOK
    <2> HIDE DEF r, page, more
    <2> QED
      BY <1>3, <1>4, <2>1, <2>6, <2>7, <2>8 DEF LoadOK
  <1>6. ASSUME NEW l \in Load, Fail(l)
        PROVE  LoadsOK' /\ DownOK' /\ CacheWasReadable'
    <2>1. /\ load[l].phase = "asked"
          /\ load' = [load EXCEPT ![l] = [load[l] EXCEPT !.phase = "failed"]]
          /\ UNCHANGED <<hist, up, parameters, asOf>>
      BY <1>6 DEF Fail
    <2>2. /\ load'[l].phase = "failed" /\ load'[l].start = load[l].start
          /\ load'[l].cursor = load[l].cursor /\ load'[l].got = load[l].got
      BY <2>1 DEF TypeOK, LoadState
    <2>3. LoadOK(l)'
      BY <2>1, <2>2 DEF IInv, LoadsOK, LoadOK, IdleOK, GotOK, PageOK, Current
    <2> QED
      BY <1>3, <1>4, <2>1, <2>3
  <1>7. ASSUME NEW l \in Load, Start(l) \/ Refresh(l)
        PROVE  LoadsOK' /\ DownOK' /\ CacheWasReadable'
    <2>1. /\ load' = [load EXCEPT ![l] = Ask(l)]
          /\ up' /\ UNCHANGED <<hist, parameters, asOf>>
      BY <1>7 DEF Start, Refresh
    <2>2. LoadOK(l)'
      BY <2>1, AskLoadOK DEF TypeOK
    <2> QED
      BY <1>3, <2>1, <2>2
  <1>8. ASSUME NEW l \in Load, NextPage(l)
        PROVE  LoadsOK' /\ DownOK' /\ CacheWasReadable'
    <2> DEFINE j == Joined(load[l].got, load[l].page)
    <2>1. /\ load[l].phase = "answered"
          /\ load' = [load EXCEPT ![l] = [Ask(l) EXCEPT !.start = load[l].start,
                                             !.cursor = load[l].reach, !.got = j]]
          /\ UNCHANGED <<hist, up, parameters, asOf>>
      BY <1>8 DEF NextPage
    <2>2. /\ load'[l].phase = "asked" /\ load'[l].start = load[l].start
          /\ load'[l].cursor = load[l].reach /\ load'[l].got = j
      BY <2>1 DEF TypeOK, Ask, IdleLoad
    <2>3. LoadOK(l) /\ load[l].start \in 1 .. Len(hist)
      BY <2>1 DEF IInv, LoadsOK, LoadOK, GotOK
    <2>4. ASSUME NEW p \in Param
          PROVE  IF p <= load[l].reach
                 THEN Current(p, j[p], load[l].start) ELSE j[p] = Absent
      BY <2>1, <2>3, JoinedReads
    <2> HIDE DEF j
    <2>5. LoadOK(l)'
      BY <2>1, <2>2, <2>3, <2>4 DEF LoadOK, IdleOK, GotOK, PageOK, Current
    <2> QED
      BY <1>3, <1>4, <2>1, <2>5
  <1>9. ASSUME NEW l \in Load, Finish(l)
        PROVE  LoadsOK' /\ DownOK' /\ CacheWasReadable'
    <2> DEFINE s == Joined(load[l].got, load[l].page)
    <2>1. /\ load[l].phase = "answered" /\ Commit(l, s) /\ UNCHANGED hist
          /\ LoadOK(l) /\ load[l].start \in 1 .. Len(hist)
      BY <1>9 DEF Finish, IInv, LoadsOK, LoadOK, GotOK
    <2>2. ReadableSince(s, load[l].start)
      BY <1>9, <2>1, AnswerReadable DEF Finish
    <2> HIDE DEF s
    <2>3. load[l].start # 0
      BY <2>1
    <2>4. CASE ~GroupThrows(s) /\ TreeThrows(s)
      BY <2>1, <2>2, <2>3, <2>4, RejectKeeps DEF Commit
    <2>6. CASE GroupThrows(s)
      <3>1. Reject(l, parameters, asOf)
        BY <2>1, <2>6 DEF Commit
      <3> QED
        BY <2>1, <3>1, RejectKeeps DEF IInv, CacheWasReadable
    <2>5. CASE ~GroupThrows(s) /\ ~TreeThrows(s)
      <3>1. /\ parameters' = s /\ load' = [load EXCEPT ![l] = IdleLoad]
            /\ asOf' = load[l].start /\ UNCHANGED up
        BY <2>1, <2>5 DEF Commit, Accept
      <3>2. LoadsOK'
        BY <3>1, IdleLoadOK, OthersStay DEF TypeOK
      <3>3. CacheWasReadable'
        BY <2>1, <2>2, <2>3, <3>1 DEF CacheWasReadable, ReadableSince, Param
      <3> QED
        BY <1>4, <2>1, <3>1, <3>2, <3>3 DEF DownOK
    <2> QED
      BY <2>4, <2>5, <2>6
  <1>10. ASSUME NEW l \in Load, GiveUp(l)
         PROVE  LoadsOK' /\ DownOK' /\ CacheWasReadable'
    BY <1>10, RejectKeeps DEF GiveUp, IInv, CacheWasReadable
  <1>11. ASSUME Kill PROVE LoadsOK' /\ DownOK' /\ CacheWasReadable'
    BY <1>11, ExitKeeps DEF Kill
  <1>12. ASSUME NEW p \in Param, NEW c \in Content, Write(p, c)
         PROVE  LoadsOK' /\ DownOK' /\ CacheWasReadable'
    BY <1>2, <1>12 DEF Write
  <1>13. ASSUME UNCHANGED vars PROVE LoadsOK' /\ DownOK' /\ CacheWasReadable'
    BY <1>2, <1>13 DEF vars
  <1> QED
    BY <1>5, <1>6, <1>7, <1>8, <1>9, <1>10, <1>11, <1>12, <1>13
    DEF Next, Process, Ssm

\* The cache never holds half an answer or a mixture of two: every value it
\* serves was in the store after the load behind it began.
THEOREM CacheIsReadable ==
    ASSUME ~EmptyPages PROVE Spec => []CacheWasReadable
  <1>1. Init => IInv
    BY InitIInv
  <1>2. IInv /\ [Next]_vars => IInv'
    BY NextIInv
  <1>3. IInv => CacheWasReadable
    BY DEF IInv
  <1> QED
    BY <1>1, <1>2, <1>3, PTL DEF Spec

-----------------------------------------------------------------------------
(* The two maps.                                                            *)

LEMMA NextMapsAgree == MapsAgree /\ [Next]_vars => MapsAgree'
  <1> SUFFICES ASSUME MapsAgree, [Next]_vars PROVE MapsAgree'
    OBVIOUS
  <1>1. CASE UNCHANGED <<parameters, newParameters>>
    BY <1>1 DEF MapsAgree, TreeThrows, Collides, newParamMapper, Shadowed, Param
  <1>2. CASE Exit
    <2>1. newParamMapper(Nothing) = Nothing
      BY DEF newParamMapper, Nothing, Param
    <2> QED
      BY <1>2, <2>1 DEF Exit, MapsAgree, newParamMapper, Shadowed, Nothing, Param
  <1>3. ASSUME NEW l \in Load, NEW s, Commit(l, s) PROVE MapsAgree'
    <2>1. CASE GroupThrows(s) /\ l # boot
      BY <1>1, <1>3, <2>1 DEF Commit, Reject
    <2>2. CASE ~GroupThrows(s) /\ TreeThrows(s) /\ l # boot
      BY <1>3, <2>2 DEF Commit, Reject, MapsAgree, TreeThrows, Collides
    <2>3. CASE ~GroupThrows(s) /\ ~TreeThrows(s)
      BY <1>3, <2>3 DEF Commit, Accept, MapsAgree, newParamMapper, Shadowed, Param
    <2> QED
      BY <1>2, <1>3, <2>1, <2>2, <2>3 DEF Commit, Reject
  <1>4. ASSUME NEW l \in Load, GiveUp(l) PROVE MapsAgree'
    BY <1>1, <1>2, <1>4 DEF GiveUp, Reject
  <1> QED
    BY <1>1, <1>2, <1>3, <1>4
    DEF Next, Process, Ssm, Write, Serve, Fail, Start, Refresh, NextPage, Finish, Kill, vars

\* Both lookups are answered from the same answer of SSM, unless a value stands
\* in the path of another parameter or a path has a refused segment.
THEOREM MapsCommitTogether == Spec => []MapsAgree
  <1>1. Init => MapsAgree
    BY DEF Init, MapsAgree, newParamMapper, Nothing
  <1>2. MapsAgree /\ [Next]_vars => MapsAgree'
    BY NextMapsAgree
  <1> QED
    BY <1>1, <1>2, PTL DEF Spec

\* A refresh that failed at SSM leaves both maps as they were.
THEOREM FailedRefreshIsHarmless == Spec => FailedRefreshKeepsMaps
  <1> DEFINE A == \A l \in Load :
                    load[l].phase = "failed" /\ load'[l].phase = "idle" /\ up'
                    => UNCHANGED <<parameters, newParameters>>
  <1>1. TypeOK /\ [Next]_vars => [A]_vars
    <2> SUFFICES ASSUME TypeOK, [Next]_vars, NEW l \in Load,
                        load[l].phase = "failed", load'[l].phase = "idle", up'
                 PROVE  UNCHANGED <<parameters, newParameters>>
      OBVIOUS
    <2>1. ASSUME NEW k \in Load, Finish(k) PROVE FALSE
      <3>1. load[k].phase = "answered"
        BY <2>1 DEF Finish
      <3>2. ~Exit
        BY DEF Exit
      <3>3. load' = [load EXCEPT ![k] = IdleLoad]
        BY <2>1, <3>2 DEF Finish, Commit, Accept, Reject
      <3>4. load'[l] = load[l]
        BY <3>1, <3>3 DEF TypeOK
      <3> QED
        BY <3>4
    <2>2. ASSUME NEW k \in Load, GiveUp(k) PROVE UNCHANGED <<parameters, newParameters>>
      BY <2>2 DEF GiveUp, Reject, Exit
    <2>3. ~Kill
      BY DEF Kill, Exit
    <2> QED
      BY <2>1, <2>2, <2>3
      DEF Next, Process, Ssm, Write, Serve, Fail, Start, Refresh, NextPage, vars
  <1>2. Spec => []TypeOK
    BY TypeCorrect
  <1> QED
    BY <1>1, <1>2, PTL DEF Spec, FailedRefreshKeepsMaps

-----------------------------------------------------------------------------
(* Loads that do not overlap.                                               *)

\* What is served is as new as anything that was confirmed, and no load under way is
\* older than what is served.
AgeOK ==
    /\ acked <= asOf /\ asOf <= Len(hist)
    /\ \A l \in Load : load[l].phase # "idle" => asOf <= load[l].start

\* A load under way can only be older than what is served if another has committed in
\* the meantime.
LEMMA NextAgeOK ==
    ASSUME IInv, AgeOK, OneAtATime, [Next]_vars PROVE AgeOK'
  <1>1. TypeOK /\ TypeOK' /\ Grows
    BY NextTypeOK, NextGrows DEF IInv
  <1>2. /\ Len(hist) \in Nat /\ Len(hist') \in Nat /\ Len(hist) <= Len(hist')
        /\ asOf \in Nat /\ acked \in Nat /\ \A l \in Load : load[l].start \in Nat
    BY <1>1 DEF TypeOK, LoadState, Grows
  <1>3. ASSUME UNCHANGED <<asOf, acked>>,
               \A l \in Load : \/ load'[l].phase = "idle"
                               \/ load'[l].start = Len(hist)
                               \/ load[l].phase # "idle" /\ load'[l].start = load[l].start
        PROVE  AgeOK'
    <2>1. acked' <= asOf' /\ asOf' <= Len(hist')
      BY <1>2, <1>3 DEF AgeOK
    <2>2. ASSUME NEW l \in Load, load'[l].phase # "idle" PROVE asOf' <= load'[l].start
      BY <1>2, <1>3, <2>2 DEF AgeOK
    <2> QED
      BY <2>1, <2>2 DEF AgeOK
  <1>4. ASSUME Exit PROVE AgeOK'
    BY <1>2, <1>4 DEF Exit, AgeOK, IdleLoad
  \* Only one load is under way, so after it has ended there is none.
  <1>5. ASSUME NEW l \in Load, load[l].phase # "idle", load' = [load EXCEPT ![l] = IdleLoad]
        PROVE  \A m \in Load : load'[m].phase = "idle"
    BY <1>1, <1>5 DEF OneAtATime, TypeOK, IdleLoad
  <1>6. ASSUME NEW p \in Param, NEW c \in Content, Write(p, c) PROVE AgeOK'
    BY <1>3, <1>6 DEF Write
  <1>7. ASSUME NEW l \in Load, NEW c \in Param, Serve(l, c) PROVE AgeOK'
    <2>1. \A m \in Load : load'[m].start = load[m].start /\ (m # l => load'[m] = load[m])
      BY <1>1, <1>7 DEF Serve, TypeOK, LoadState
    <2> QED
      BY <1>3, <1>7, <2>1 DEF Serve
  <1>8. ASSUME NEW l \in Load, Fail(l) PROVE AgeOK'
    <2>1. \A m \in Load : load'[m].start = load[m].start /\ (m # l => load'[m] = load[m])
      BY <1>1, <1>8 DEF Fail, TypeOK, LoadState
    <2> QED
      BY <1>3, <1>8, <2>1 DEF Fail
  <1>9. ASSUME NEW l \in Load, Start(l) \/ Refresh(l) PROVE AgeOK'
    <2>1. load' = [load EXCEPT ![l] = Ask(l)] /\ UNCHANGED <<asOf, acked>>
      BY <1>9 DEF Start, Refresh
    <2>2. Ask(l).start = Len(hist)
      BY DEF Ask, IdleLoad
    <2>3. \A m \in Load : IF m = l THEN load'[m].start = Len(hist) ELSE load'[m] = load[m]
      BY <1>1, <2>1, <2>2 DEF TypeOK
    <2> QED
      BY <1>3, <2>1, <2>3
  <1>10. ASSUME NEW l \in Load, NextPage(l) PROVE AgeOK'
    <2>1. \A m \in Load : load'[m].start = load[m].start /\ (m # l => load'[m] = load[m])
      BY <1>1, <1>10 DEF NextPage, Ask, IdleLoad, TypeOK, LoadState
    <2> QED
      BY <1>3, <1>10, <2>1 DEF NextPage
  <1>11. ASSUME NEW l \in Load, Finish(l) PROVE AgeOK'
    <2> DEFINE s == Joined(load[l].got, load[l].page)
    <2>1. load[l].phase # "idle" /\ Commit(l, s) /\ hist' = hist
      BY <1>11 DEF Finish
    <2>2. load[l].start <= Len(hist) /\ asOf <= load[l].start /\ acked <= asOf
      BY <1>2, <2>1 DEF IInv, LoadsOK, LoadOK, GotOK, AgeOK
    <2> HIDE DEF s
    <2>3. \/ Exit
          \/ /\ asOf' = load[l].start /\ load' = [load EXCEPT ![l] = IdleLoad]
             /\ acked' = acked \/ acked' = Later(acked, load[l].start)
          \/ UNCHANGED <<asOf, acked>> /\ load' = [load EXCEPT ![l] = IdleLoad]
      BY <2>1 DEF Commit, Reject, Accept
    <2>4. CASE Exit
      BY <1>4, <2>4
    <2>5. CASE asOf' = load[l].start /\ load' = [load EXCEPT ![l] = IdleLoad]
               /\ (acked' = acked \/ acked' = Later(acked, load[l].start))
      <3>1. acked' <= asOf'
        BY <1>2, <2>2, <2>5 DEF Later
      <3>2. \A m \in Load : load'[m].phase = "idle"
        BY <1>5, <2>1, <2>5
      <3> QED
        BY <2>1, <2>2, <2>5, <3>1, <3>2 DEF AgeOK
    <2>6. CASE UNCHANGED <<asOf, acked>> /\ load' = [load EXCEPT ![l] = IdleLoad]
      <3>1. \A m \in Load : load'[m].phase = "idle"
        BY <1>5, <2>1, <2>6
      <3> QED
        BY <1>3, <2>6, <3>1
    <2> QED
      BY <2>3, <2>4, <2>5, <2>6
  <1>12. ASSUME NEW l \in Load, GiveUp(l) PROVE AgeOK'
    <2>1. CASE l = boot
      BY <1>4, <1>12, <2>1 DEF GiveUp, Reject
    <2>2. CASE l # boot
      <3>1. load[l].phase # "idle" /\ load' = [load EXCEPT ![l] = IdleLoad]
            /\ UNCHANGED <<asOf, acked>>
        BY <1>12, <2>2 DEF GiveUp, Reject
      <3>2. \A m \in Load : load'[m].phase = "idle"
        BY <1>5, <3>1
      <3> QED
        BY <1>3, <3>1, <3>2
    <2> QED
      BY <2>1, <2>2
  <1>13. ASSUME Kill PROVE AgeOK'
    BY <1>4, <1>13 DEF Kill
  <1>14. ASSUME UNCHANGED vars PROVE AgeOK'
    BY <1>14 DEF vars, AgeOK
  <1> QED
    BY <1>6, <1>7, <1>8, <1>9, <1>10, <1>11, <1>12, <1>13, <1>14 DEF Next, Process, Ssm

\* Refresh, reloadConfig: as long as no two loads overlap, the maps that are served are
\* never older than what a refresh that succeeded had found.
THEOREM SerialNeverGoesBack ==
    ASSUME ~EmptyPages PROVE Spec => NeverOlderWhenSerial
  <1>1. Init => IInv /\ AgeOK
    <2>1. Init => AgeOK
      <3> SUFFICES ASSUME Init PROVE AgeOK
        OBVIOUS
      <3>1. Len(hist) = 1 /\ asOf = 0 /\ acked = 0
        BY DEF Init
      <3> QED
        BY <3>1 DEF Init, AgeOK, IdleLoad
    <2> QED
      BY <2>1, InitIInv
  <1>2. IInv /\ [Next]_vars => IInv'
    BY NextIInv
  <1>3. IInv /\ AgeOK /\ OneAtATime /\ [Next]_vars => AgeOK'
    BY NextAgeOK
  <1>4. IInv /\ AgeOK => NeverOlderThanAcked
    <2> SUFFICES ASSUME IInv, AgeOK, acked # 0 PROVE ReadableSince(parameters, acked)
      BY DEF NeverOlderThanAcked
    <2>1. /\ acked \in Nat /\ asOf \in Nat /\ Len(hist) \in Nat /\ asOf # 0 /\ acked <= asOf
          /\ ReadableSince(parameters, asOf)
      BY DEF IInv, TypeOK, AgeOK, CacheWasReadable
    <2>2. asOf .. Len(hist) \subseteq acked .. Len(hist)
      BY <2>1
    <2> QED
      BY <2>1, <2>2 DEF ReadableSince
  <1> QED
    BY <1>1, <1>2, <1>3, <1>4, PTL DEF Spec, NeverOlderWhenSerial

-----------------------------------------------------------------------------
(* The process implements the contract of its readers.                      *)

LEMMA InitContract == Init => Contract!CInit
  <1> SUFFICES ASSUME Init PROVE Contract!CInit
    OBVIOUS
  <1>1. [l \in Load |-> load[l].start] = [l \in Load |-> 0]
    BY DEF Init, IdleLoad
  <1> QED
    BY <1>1 DEF Init, Contract!CInit, Contract!Snapshot, Snapshot

LEMMA NextContract ==
    ASSUME ~EmptyPages, IInv, IInv', [Next]_vars
    PROVE  [Contract!CNext]_(Contract!cvars)
  <1> DEFINE since == [l \in Load |-> load[l].start]
  <1>1. TypeOK /\ TypeOK'
    BY DEF IInv
  <1> USE <1>1
  <1>2. ASSUME UNCHANGED <<hist, parameters>>, since' = since
        PROVE  UNCHANGED Contract!cvars
    BY <1>2 DEF Contract!cvars
  <1>3. ASSUME Exit, UNCHANGED hist PROVE Contract!Lose
    <2>1. since' = [l \in Load |-> 0]
      BY <1>3 DEF Exit, IdleLoad
    <2> QED
      BY <1>3, <2>1 DEF Exit, Contract!Lose
  <1>4. ASSUME NEW l \in Load, NEW r, load' = [load EXCEPT ![l] = r]
        PROVE  since' = [since EXCEPT ![l] = r.start]
    BY <1>4 DEF TypeOK
  <1>5. ASSUME NEW l \in Load, NEW r, load' = [load EXCEPT ![l] = r],
               r.start = load[l].start
        PROVE  since' = since
    BY <1>5 DEF TypeOK
  <1>6. ASSUME NEW l \in Load, load[l].phase # "idle"
        PROVE  since[l] # 0
    BY <1>6 DEF IInv, LoadsOK, LoadOK, GotOK, TypeOK
  <1>7. ASSUME NEW l \in Load, NEW s \in Snapshot, load[l].phase # "idle",
               parameters' = s, ReadableSince(s, load[l].start), UNCHANGED hist,
               load' = [load EXCEPT ![l] = IdleLoad]
        PROVE  Contract!Install(l)
    <2>1. since' = [since EXCEPT ![l] = 0]
      <3>1. since' = [since EXCEPT ![l] = IdleLoad.start]
        BY <1>4, <1>7
      <3> QED
        BY <3>1 DEF IdleLoad
    <2>2. Contract!ReadableSince(s, since[l])
      BY <1>7 DEF ReadableSince, Contract!ReadableSince
    <2> QED
      BY <1>6, <1>7, <2>1, <2>2 DEF Contract!Install, Contract!Snapshot, Snapshot
  <1>8. ASSUME NEW p \in Param, NEW c \in Content, Write(p, c)
        PROVE  Contract!StoreChanges
    <2>1. [store EXCEPT ![p] = c] \in Snapshot
      BY DEF store, Snapshot, TypeOK
    <2>2. since' = since
      BY <1>8 DEF Write
    <2> QED
      BY <1>8, <2>1, <2>2 DEF Write, Contract!StoreChanges, Contract!Snapshot, Snapshot
  <1>9. ASSUME NEW l \in Load, Start(l) \/ Refresh(l) PROVE Contract!Begin(l)
    <2>1. load[l].phase = "idle"
      BY <1>9 DEF Start, Refresh, IInv, DownOK, IdleLoad
    <2>2. since[l] = 0
      BY <2>1 DEF IInv, LoadsOK, LoadOK, IdleOK, IdleLoad
    <2>3. load' = [load EXCEPT ![l] = Ask(l)] /\ UNCHANGED <<hist, parameters>>
      BY <1>9 DEF Start, Refresh
    <2>4. since' = [since EXCEPT ![l] = Len(hist)]
      <3>1. since' = [since EXCEPT ![l] = Ask(l).start]
        BY <1>4, <2>3
      <3> QED
        BY <3>1 DEF Ask, IdleLoad
    <2> QED
      BY <2>2, <2>3, <2>4 DEF Contract!Begin
  <1>10. ASSUME NEW l \in Load, NextPage(l) \/ Ssm(l) PROVE UNCHANGED Contract!cvars
    <2>1. UNCHANGED <<hist, parameters>>
      BY <1>10 DEF NextPage, Ssm, Fail, Serve
    <2>2. CASE NextPage(l)
      BY <1>2, <1>5, <2>1, <2>2 DEF NextPage, Ask, IdleLoad
    <2>3. CASE Fail(l)
      <3>1. load' = [load EXCEPT ![l] = [load[l] EXCEPT !.phase = "failed"]]
        BY <2>3 DEF Fail
      <3>2. [load[l] EXCEPT !.phase = "failed"].start = load[l].start
        BY DEF TypeOK, LoadState
      <3> QED
        BY <1>2, <1>5, <2>1, <3>1, <3>2
    <2>4. ASSUME NEW c \in Param, Serve(l, c) PROVE since' = since
      BY <2>4 DEF Serve, TypeOK, LoadState
    <2> QED
      BY <1>2, <1>10, <2>1, <2>2, <2>3, <2>4 DEF Ssm
  \* A load that is rejected without having touched `parameters`.
  <1>15. ASSUME NEW l \in Load, load[l].phase # "idle", UNCHANGED <<hist, parameters>>,
                load' = [load EXCEPT ![l] = IdleLoad]
         PROVE  Contract!Abandon(l)
    <2>1. since' = [since EXCEPT ![l] = 0]
      <3>1. since' = [since EXCEPT ![l] = IdleLoad.start]
        BY <1>4, <1>15
      <3> QED
        BY <3>1 DEF IdleLoad
    <2> QED
      BY <1>6, <1>15, <2>1 DEF Contract!Abandon
  <1>11. ASSUME NEW l \in Load, Finish(l)
         PROVE  Contract!Install(l) \/ Contract!Abandon(l) \/ Contract!Lose
    <2> DEFINE s == Joined(load[l].got, load[l].page)
    <2>1. s \in Snapshot
      BY SnapshotFacts DEF TypeOK, LoadState
    <2>2. /\ load[l].phase # "idle" /\ UNCHANGED hist /\ Commit(l, s)
          /\ load[l].phase = "answered" /\ LastPage(l) /\ LoadOK(l)
      BY <1>11 DEF Finish, IInv, LoadsOK
    <2>3. ReadableSince(s, load[l].start)
      BY <2>2, AnswerReadable
    <2> HIDE DEF s
    <2>4. \/ Exit
          \/ parameters' \in {s, parameters} /\ load' = [load EXCEPT ![l] = IdleLoad]
      BY <2>2 DEF Commit, Reject, Accept
    <2> QED
      BY <1>3, <1>7, <1>15, <2>1, <2>2, <2>3, <2>4
  <1>12. ASSUME NEW l \in Load, GiveUp(l) PROVE Contract!Abandon(l) \/ Contract!Lose
    <2>1. CASE l = boot
      BY <1>3, <1>12, <2>1 DEF GiveUp, Reject
    <2>2. CASE l # boot
      <3>1. /\ load[l].phase # "idle" /\ UNCHANGED <<hist, parameters>>
            /\ load' = [load EXCEPT ![l] = IdleLoad]
        BY <1>12, <2>2 DEF GiveUp, Reject
      <3> QED
        BY <1>15, <3>1
    <2> QED
      BY <2>1, <2>2
  <1>13. ASSUME Kill PROVE Contract!Lose
    BY <1>3, <1>13 DEF Kill
  <1>14. ASSUME UNCHANGED vars PROVE UNCHANGED Contract!cvars
    BY <1>2, <1>14 DEF vars
  <1> QED
    BY <1>8, <1>9, <1>10, <1>11, <1>12, <1>13, <1>14
    DEF Next, Process, Contract!CNext

\* Overlapping loads, pages and crashes included, the process does nothing that
\* the contract does not allow.
THEOREM ContractKept == ASSUME ~EmptyPages PROVE Spec => ImplementsContract
  <1>1. Init => IInv /\ Contract!CInit
    BY InitIInv, InitContract
  <1>2. IInv /\ [Next]_vars => IInv'
    BY NextIInv
  <1>3. IInv /\ IInv' /\ [Next]_vars => [Contract!CNext]_(Contract!cvars)
    BY NextContract
  <1> QED
    BY <1>1, <1>2, <1>3, PTL DEF Spec, ImplementsContract, Contract!CSpec
=============================================================================
