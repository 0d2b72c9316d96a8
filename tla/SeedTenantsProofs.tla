-------------------------- MODULE SeedTenantsProofs --------------------------
(* Theorems about SeedTenants, for any number of runs, faults and changes,   *)
(* and whatever was made by hand before.                                     *)
EXTENDS SeedTenants, SequenceTheorems, TLAPS

-----------------------------------------------------------------------------
(* What the script goes through.                                            *)

\* FlattenSeq is recursive; for the two tenants two steps of it are enough.
LEMMA FlattenTwo ==
    ASSUME NEW S, NEW s \in Seq(S), NEW t \in Seq(S)
    PROVE  FlattenSeq(<<s, t>>) = s \o t
  <1> DEFINE seqs == <<s, t>>
             Flat(f) == f = [i \in 1 .. Len(seqs) |-> IF i = 1 THEN seqs[i] ELSE f[i - 1] \o seqs[i]]
             flat == CHOOSE f : Flat(f)
             g == [i \in 1 .. 2 |-> IF i = 1 THEN s ELSE s \o t]
  <1>1. Len(seqs) = 2 /\ seqs[1] = s /\ seqs[2] = t
    OBVIOUS
  <1>2. Flat(g)
    BY <1>1
  <1>3. Flat(flat)
    <2> HIDE DEF Flat
    <2> QED
      BY <1>2
  <1>4. flat[1] = s /\ flat[2] = flat[1] \o t
    <2> HIDE DEF flat, seqs
    <2>1. flat = [i \in 1 .. Len(seqs) |-> IF i = 1 THEN seqs[i] ELSE flat[i - 1] \o seqs[i]]
      BY <1>3
    <2>2. 1 \in 1 .. Len(seqs) /\ 2 \in 1 .. Len(seqs) /\ 2 - 1 = 1 /\ 2 # 1
      BY <1>1
    <2>3. flat[1] = seqs[1]
      BY <2>1, <2>2, Zenon
    <2>4. flat[2] = flat[2 - 1] \o seqs[2]
      BY <2>1, <2>2, Zenon
    <2> QED
      BY <1>1, <2>2, <2>3, <2>4
  <1>5. FlattenSeq(seqs) = flat[Len(seqs)]
    BY <1>1 DEF FlattenSeq
  <1> QED
    BY <1>1, <1>4, <1>5

\* The words of the script.
Kind == {"configs", "ssmParams", "users"}
Ids == {"acme-corp", "globex-inc"}
Ends == {"payment-gateway", "api-settings", "api/api-key", "api/endpoint",
         "database/connection-string", "admin", "user"}

LEMMA TenantsFacts ==
    /\ DOMAIN tenants = 1 .. 2
    /\ \A i \in 1 .. 2 :
          /\ tenants[i].tenantId \in Ids
          /\ \A kind \in Kind : tenants[i][kind] \in Seq(Ends) /\ tenants[i][kind] # <<>>
  <1> DEFINE configs == <<"payment-gateway", "api-settings">>
             ssmParams == <<"api/api-key", "api/endpoint", "database/connection-string">>
             users == <<"admin", "user">>
             Seeded(id) == [tenantId |-> id, configs |-> configs, ssmParams |-> ssmParams,
                            users |-> users]
  <1>1. tenants = <<Seeded("acme-corp"), Seeded("globex-inc")>>
    BY DEF tenants
  <1>2. /\ configs \in Seq(Ends) /\ configs # <<>>
        /\ ssmParams \in Seq(Ends) /\ ssmParams # <<>>
        /\ users \in Seq(Ends) /\ users # <<>>
    <2>1. \A a, b, c \in Ends : /\ <<a, b>> \in Seq(Ends) /\ <<a, b>> # <<>>
                             /\ <<a, b, c>> \in Seq(Ends) /\ <<a, b, c>> # <<>>
      OBVIOUS
    <2>2. /\ \A x \in {"payment-gateway", "api-settings"} : x \in Ends
          /\ \A x \in {"api/api-key", "api/endpoint", "database/connection-string"} : x \in Ends
          /\ \A x \in {"admin", "user"} : x \in Ends
      BY DEF Ends
    <2> QED
      BY <2>1, <2>2
  <1> HIDE DEF configs, ssmParams, users
  <1>3. ASSUME NEW id \in Ids
        PROVE  /\ Seeded(id).tenantId \in Ids
               /\ \A kind \in Kind : Seeded(id)[kind] \in Seq(Ends) /\ Seeded(id)[kind] # <<>>
    <2>1. /\ Seeded(id).tenantId = id /\ Seeded(id)["configs"] = configs
          /\ Seeded(id)["ssmParams"] = ssmParams /\ Seeded(id)["users"] = users
      OBVIOUS
    <2> HIDE DEF Seeded
    <2> QED
      BY <1>2, <2>1 DEF Kind
  <1> HIDE DEF Seeded
  <1>4. /\ DOMAIN tenants = 1 .. 2
        /\ tenants[1] = Seeded("acme-corp") /\ tenants[2] = Seeded("globex-inc")
    BY <1>1
  <1>5. ASSUME NEW i \in 1 .. 2
        PROVE  \E id \in Ids : tenants[i] = Seeded(id)
    BY <1>4 DEF Ids
  <1> QED
    BY <1>3, <1>4, <1>5

\* The nested loops meet elements of one kind, and at least one.
LEMMA LoopFacts ==
    ASSUME NEW kind \in Kind
    PROVE  /\ Loop(kind) \in Seq(Range(Loop(kind))) /\ Loop(kind) # <<>>
           /\ \A e \in Range(Loop(kind)) : e[1] = kind
  <1> DEFINE part(i) == [j \in DOMAIN tenants[i][kind] |->
                            <<kind, tenants[i].tenantId, tenants[i][kind][j]>>]
             E == {kind} \X Ids \X Ends
  <1>1. ASSUME NEW i \in 1 .. 2 PROVE part(i) \in Seq(E) /\ part(i) # <<>>
    <2>1. /\ tenants[i].tenantId \in Ids
          /\ tenants[i][kind] \in Seq(Ends) /\ tenants[i][kind] # <<>>
      BY TenantsFacts
    <2>2. PICK n \in Nat : n # 0 /\ tenants[i][kind] \in [1 .. n -> Ends]
      BY <2>1, EmptySeq, LenProperties
    <2>3. part(i) \in [1 .. n -> E]
      BY <2>1, <2>2
    <2>4. part(i) \in Seq(E)
      BY <2>2, <2>3, SeqDef
    <2>5. DOMAIN part(i) = 1 .. n /\ 1 \in 1 .. n /\ DOMAIN <<>> = {}
      BY <2>2, <2>3
    <2>6. part(i) # <<>>
      BY <2>5
    <2> QED
      BY <2>4, <2>6
  <1>2. Loop(kind) = FlattenSeq([i \in 1 .. 2 |-> part(i)])
    BY TenantsFacts DEF Loop
  <1> HIDE DEF part, E
  <1>3. [i \in 1 .. 2 |-> part(i)] = <<part(1), part(2)>>
    OBVIOUS
  <1>4. Loop(kind) = part(1) \o part(2)
    <2>1. part(1) \in Seq(E) /\ part(2) \in Seq(E)
      BY <1>1
    <2>2. FlattenSeq(<<part(1), part(2)>>) = part(1) \o part(2)
      BY <2>1, FlattenTwo
    <2> QED
      BY <1>2, <1>3, <2>2
  <1>5. Loop(kind) \in Seq(E) /\ Loop(kind) # <<>>
    <2>1. /\ part(1) \in Seq(E) /\ part(2) \in Seq(E)
          /\ Len(part(1)) \in Nat \ {0} /\ Len(part(2)) \in Nat
      BY <1>1, EmptySeq, LenProperties
    <2> QED
      BY <1>4, <2>1, ConcatProperties, EmptySeq
  <1>6. Range(Loop(kind)) \subseteq E
    BY <1>5, RangeOfSeq
  <1>7. \A e \in E : e[1] = kind
    BY DEF E
  <1> QED
    BY <1>5, <1>6, <1>7, SeqOfRange

-----------------------------------------------------------------------------
(* The inductive invariant.                                                 *)

Elements == Config \union Param \union User

\* An element is as the script has it, or somebody has changed it since.
Kept(e) == IsSeeded(e) \/ e \in touched

\* A configuration or parameter has been there.
There(e) == (e \in Config => table[e] # Absent) /\ (e \in Param => params[e] # Absent)

Fields == {"status", "todo", "next", "withPool", "unsaid"}

ShapeOK == DOMAIN run = Run /\ \A r \in Run : DOMAIN run[r] = Fields

\* A user has the script's email, or one somebody gave it before or since.
EmailKept(u, value) == value.email \/ u \in known \/ u \in touched

StoresOK ==
    /\ table \in [Config -> Item \union {Absent}]
    /\ \A c \in Config : table[c] # Absent => table[c].version <= changes + 1
    /\ params \in [Param -> Parameter \union Missing]
    /\ pool \in [User -> Account \union Missing]
    /\ \A u \in User : pool[u] \notin Missing => EmailKept(u, pool[u])
    /\ changes \in 0 .. MaxChanges /\ faults \in Nat

\* The elements a call can be about.
ElementsOf(command) ==
    CASE command = "PutItem" -> Config
      [] command \in {"PutParameter", "Overwrite"} -> Param
      [] OTHER -> User

\* Where a run is: its next call suits the element at hand, and once it comes to the
\* users nothing else is left.
PlaceOK(r) ==
    /\ run[r].status \in {"waiting", "running", "succeeded", "failed", "killed"}
    /\ run[r].next \in Calls /\ run[r].todo \in Seq(Elements)
    /\ run[r].status = "waiting" => run[r].next = "PutItem"
    /\ run[r].status = "running" =>
          run[r].todo # <<>> /\ Element(r) \in ElementsOf(run[r].next)
    /\ run[r].status = "succeeded" => run[r].todo = <<>>
    /\ \A i, j \in DOMAIN run[r].todo :
          i < j /\ run[r].todo[i] \in User => run[r].todo[j] \in User

\* What it has behind it.
BehindOK(r) ==
    run[r].status # "waiting" =>
        /\ run[r].withPool \in BOOLEAN
        /\ \A e \in Range(main(run[r].withPool)) \ Range(run[r].todo) :
              (Kept(e) \/ e \in run[r].unsaid) /\ There(e)

\* What holds between the two calls about one element.
BetweenOK(r) ==
    /\ About(r, "AddToGroup") => Kept(Element(r))
    /\ About(r, "Overwrite") => params[Element(r)] \notin Missing \/ Element(r) \in raced

RunOK(r) == PlaceOK(r) /\ BehindOK(r) /\ BetweenOK(r)

SInv ==
    /\ ShapeOK /\ StoresOK
    /\ \A r \in Run : RunOK(r)
    /\ UsersComeLast /\ NoGroupHasACause /\ NoTagsHaveACause

-----------------------------------------------------------------------------
(* The elements of the script.                                              *)

LEMMA KindFacts ==
    /\ \A e \in Config : e[1] = "configs"
    /\ \A e \in Param : e[1] = "ssmParams"
    /\ \A e \in User : e[1] = "users"
  BY LoopFacts DEF Kind, Config, Param, User

LEMMA KindsDiffer ==
    /\ Config \intersect Param = {} /\ Config \intersect User = {}
    /\ Param \intersect User = {}
  BY KindFacts

\* The first call for an element is one that suits it, and never the second of two.
LEMMA FirstCallFacts ==
    ASSUME NEW e \in Elements
    PROVE  /\ FirstCall(e[1]) \in {"PutItem", "PutParameter", "CreateUser"}
           /\ e \in ElementsOf(FirstCall(e[1]))
  <1>1. CASE e \in Config
    BY <1>1, KindFacts DEF FirstCall, ElementsOf
  <1>2. CASE e \in Param
    BY <1>2, KindFacts DEF FirstCall, ElementsOf
  <1>3. CASE e \in User
    BY <1>3, KindFacts DEF FirstCall, ElementsOf
  <1> QED
    BY <1>1, <1>2, <1>3 DEF Elements

\* main goes through all of it, the users last.
LEMMA MainFacts ==
    ASSUME NEW withPool \in BOOLEAN
    PROVE  /\ main(withPool) \in Seq(Elements) /\ main(withPool) # <<>>
           /\ Config \subseteq Range(main(withPool)) /\ Param \subseteq Range(main(withPool))
           /\ \A i, j \in DOMAIN main(withPool) :
                 i < j /\ main(withPool)[i] \in User => main(withPool)[j] \in User
  <1> DEFINE first == Loop("configs") \o Loop("ssmParams")
             last == IF withPool THEN Loop("users") ELSE <<>>
  <1>1. main(withPool) = first \o last
    BY DEF main
  <1>2. /\ Loop("configs") \in Seq(Elements) /\ Loop("ssmParams") \in Seq(Elements)
        /\ Loop("users") \in Seq(Elements) /\ Loop("configs") # <<>>
    <2>1. /\ Loop("configs") \in Seq(Config) /\ Loop("ssmParams") \in Seq(Param)
          /\ Loop("users") \in Seq(User) /\ Loop("configs") # <<>>
      BY LoopFacts DEF Kind, Config, Param, User
    <2> QED
      BY <2>1, SeqMonotonic DEF Elements
  <1>3. /\ first \in Seq(Elements) /\ Len(first) = Len(Loop("configs")) + Len(Loop("ssmParams"))
        /\ Range(first) = Config \union Param
    BY <1>2, ConcatProperties, RangeConcatenation DEF Config, Param
  <1>4. last \in Seq(Elements) /\ \A j \in DOMAIN last : last[j] \in User
    <2>1. CASE withPool
      BY <1>2, <2>1 DEF User, Range
    <2>2. CASE ~withPool
      <3>1. last = <<>> /\ DOMAIN last = {}
        BY <2>2
      <3> QED
        BY <3>1, EmptySeq
    <2> QED
      BY <2>1, <2>2
  <1> HIDE DEF first, last
  <1>5. /\ main(withPool) \in Seq(Elements) /\ Len(main(withPool)) = Len(first) + Len(last)
        /\ \A i \in 1 .. Len(first) + Len(last) :
              main(withPool)[i] = IF i <= Len(first) THEN first[i] ELSE last[i - Len(first)]
        /\ Range(main(withPool)) = Range(first) \union Range(last)
    <2>1. /\ first \o last \in Seq(Elements) /\ Len(first \o last) = Len(first) + Len(last)
          /\ \A i \in 1 .. Len(first) + Len(last) :
                (first \o last)[i] = IF i <= Len(first) THEN first[i] ELSE last[i - Len(first)]
      BY <1>3, <1>4, ConcatProperties
    <2>2. Range(first \o last) = Range(first) \union Range(last)
      BY <1>3, <1>4, RangeConcatenation
    <2> QED
      BY <1>1, <2>1, <2>2, Zenon
  <1>6. Len(first) \in Nat \ {0} /\ Len(last) \in Nat
    BY <1>2, <1>3, <1>4, EmptySeq, LenProperties
  <1>7. main(withPool) # <<>>
    BY <1>5, <1>6, EmptySeq
  <1>8. ASSUME NEW i \in DOMAIN main(withPool), NEW j \in DOMAIN main(withPool),
               i < j, main(withPool)[i] \in User
        PROVE  main(withPool)[j] \in User
    <2>1. i \in 1 .. Len(first) + Len(last) /\ j \in 1 .. Len(first) + Len(last)
      BY <1>5, LenProperties
    <2>2. ~(i <= Len(first))
      <3> SUFFICES ASSUME i <= Len(first) PROVE FALSE
        OBVIOUS
      <3>1. main(withPool)[i] = first[i] /\ i \in DOMAIN first
        BY <1>3, <1>5, <1>6, <2>1, LenProperties
      <3>2. first[i] \in Config \union Param
        BY <1>3, <3>1 DEF Range
      <3> QED
        BY <1>8, <3>1, <3>2, KindsDiffer
    <2>3. main(withPool)[j] = last[j - Len(first)] /\ j - Len(first) \in 1 .. Len(last)
      BY <1>5, <1>6, <1>8, <2>1, <2>2
    <2>4. j - Len(first) \in DOMAIN last
      BY <1>4, <2>3, LenProperties
    <2> QED
      BY <1>4, <2>3, <2>4
  <1> QED
    BY <1>3, <1>5, <1>7, <1>8

-----------------------------------------------------------------------------
(* The invariant, rebuilt after a step.                                     *)

\* What is kept stays so, what has been there stays so, races are remembered; and a
\* parameter that vanishes while a run is about to overwrite it is a race.
Grows ==
    /\ \A e \in Elements : (Kept(e) => Kept(e)') /\ (There(e) => There(e)')
    /\ raced \subseteq raced' /\ known' = known
    /\ \A p \in Param : params[p] \notin Missing /\ params'[p] \in Missing =>
          \A r \in Run : About(r, "Overwrite") /\ Element(r) = p => p \in raced'

Others(r) == \A x \in Run : x # r => run'[x] = run[x]

LEMMA RunFacts ==
    ASSUME SInv, NEW r \in Run
    PROVE  /\ PlaceOK(r) /\ BehindOK(r) /\ BetweenOK(r)
           /\ \A e \in Range(run[r].todo) : e \in Elements
           /\ run[r].status = "running" =>
                 /\ Element(r) \in Elements /\ Element(r) \in ElementsOf(run[r].next)
                 /\ Tail(run[r].todo) \in Seq(Elements)
                 /\ Range(run[r].todo) = {Element(r)} \union Range(Tail(run[r].todo))
                 /\ \A i \in DOMAIN Tail(run[r].todo) :
                       /\ i \in Nat /\ i + 1 \in DOMAIN run[r].todo
                       /\ Tail(run[r].todo)[i] = run[r].todo[i + 1]
  <1> DEFINE todo == run[r].todo
  <1>1. PlaceOK(r) /\ BehindOK(r) /\ BetweenOK(r)
    BY DEF SInv, RunOK
  <1>2. todo \in Seq(Elements)
    BY <1>1 DEF PlaceOK
  <1>3. \A e \in Range(todo) : e \in Elements
    BY <1>2, RangeOfSeq
  <1>4. ASSUME run[r].status = "running"
        PROVE  /\ Element(r) \in Elements /\ Element(r) \in ElementsOf(run[r].next)
               /\ Tail(todo) \in Seq(Elements)
               /\ Range(todo) = {Element(r)} \union Range(Tail(todo))
               /\ \A i \in DOMAIN Tail(todo) :
                     /\ i \in Nat /\ i + 1 \in DOMAIN todo /\ Tail(todo)[i] = todo[i + 1]
    <2>1. todo # <<>> /\ Element(r) = Head(todo) /\ Element(r) \in ElementsOf(run[r].next)
      BY <1>1, <1>4 DEF PlaceOK, Element
    <2> HIDE DEF todo
    <2>2. /\ Head(todo) \in Elements /\ Head(todo) = todo[1]
          /\ Tail(todo) \in Seq(Elements) /\ Len(Tail(todo)) = Len(todo) - 1
          /\ \A i \in 1 .. Len(Tail(todo)) : Tail(todo)[i] = todo[i + 1]
          /\ Len(todo) \in Nat \ {0} /\ DOMAIN todo = 1 .. Len(todo)
          /\ DOMAIN Tail(todo) = 1 .. Len(Tail(todo))
      BY <1>2, <2>1, HeadTailProperties, EmptySeq, LenProperties
    <2>3. Range(todo) = {Head(todo)} \union Range(Tail(todo))
      <3>1. ASSUME NEW e \in Range(todo) PROVE e \in {Head(todo)} \union Range(Tail(todo))
        <4>1. PICK i \in DOMAIN todo : e = todo[i]
          BY DEF Range
        <4>2. CASE i = 1
          BY <2>2, <4>1, <4>2
        <4>3. CASE i # 1
          <5>1. i - 1 \in DOMAIN Tail(todo) /\ Tail(todo)[i - 1] = todo[i]
            BY <2>2, <4>1, <4>3
          <5> QED
            BY <4>1, <5>1 DEF Range
        <4> QED
          BY <4>2, <4>3
      <3>2. Head(todo) \in Range(todo)
        BY <2>2 DEF Range
      <3>3. ASSUME NEW e \in Range(Tail(todo)) PROVE e \in Range(todo)
        <4>1. PICK i \in DOMAIN Tail(todo) : e = Tail(todo)[i]
          BY DEF Range
        <4>2. i + 1 \in DOMAIN todo /\ e = todo[i + 1]
          BY <2>2, <4>1
        <4> QED
          BY <4>2 DEF Range
      <3> QED
        BY <3>1, <3>2, <3>3
    <2> QED
      BY <2>1, <2>2, <2>3
  <1> QED
    BY <1>1, <1>3, <1>4

\* Once a run has come to the users, all else has been there.
LEMMA AllThere ==
    ASSUME SInv, NEW r \in Run, run[r].status = "running", Element(r) \in User
    PROVE  /\ \A c \in Config : table[c] # Absent
           /\ \A p \in Param : params[p] # Absent
  <1> DEFINE todo == run[r].todo
             all == Range(main(run[r].withPool))
  <1>1. PlaceOK(r) /\ BehindOK(r) /\ todo # <<>> /\ todo \in Seq(Elements)
    BY RunFacts DEF PlaceOK
  <1>2. ASSUME NEW e \in Range(todo) PROVE e \in User
    <2>1. PICK i \in DOMAIN todo : e = todo[i]
      BY DEF Range
    <2>2. i \in Nat /\ 1 \in DOMAIN todo /\ 1 <= i /\ todo[1] \in User
      BY <1>1, <2>1, EmptySeq, LenProperties DEF Element
    <2>3. \A k, j \in DOMAIN todo : k < j /\ todo[k] \in User => todo[j] \in User
      BY <1>1 DEF PlaceOK
    <2> QED
      BY <2>1, <2>2, <2>3
  <1>3. Config \subseteq all /\ Param \subseteq all
    BY <1>1, MainFacts DEF BehindOK
  <1>4. \A e \in Config \union Param : e \in all \ Range(todo)
    BY <1>2, <1>3, KindsDiffer
  <1> QED
    BY <1>1, <1>4 DEF BehindOK, There

\* A run that does not step.
LEMMA RestStays ==
    ASSUME SInv, Grows, NEW r \in Run, run'[r] = run[r]
    PROVE  RunOK(r)'
  <1>1. PlaceOK(r) /\ BehindOK(r) /\ BetweenOK(r)
    BY RunFacts
  <1>2. PlaceOK(r)'
    BY <1>1 DEF PlaceOK, Element
  <1>3. BehindOK(r)'
    <2> SUFFICES ASSUME run[r].status # "waiting",
                        NEW e \in Range(main(run[r].withPool)) \ Range(run[r].todo)
                 PROVE  (Kept(e)' \/ e \in run[r].unsaid) /\ There(e)'
      BY <1>1 DEF BehindOK
    <2>1. e \in Elements
      BY <1>1, MainFacts, RangeOfSeq DEF BehindOK
    <2> QED
      BY <1>1, <2>1 DEF BehindOK, Grows
  <1>4. BetweenOK(r)'
    <2>1. ASSUME About(r, "AddToGroup") PROVE Kept(Element(r))'
      <3>1. Element(r) \in Elements /\ Element(r)' = Element(r)
        BY <2>1, RunFacts DEF About, Element
      <3>2. PICK e \in Elements : e = Element(r)
        BY <3>1
      <3> QED
        BY <1>1, <2>1, <3>1, <3>2 DEF BetweenOK, Grows, Kept, IsSeeded
    <2>2. ASSUME About(r, "Overwrite")
          PROVE  params'[Element(r)] \notin Missing \/ Element(r) \in raced'
      <3>1. Element(r) \in Param
        BY <2>2, RunFacts DEF About, ElementsOf
      <3> QED
        BY <1>1, <2>2, <3>1 DEF BetweenOK, Grows
    <2> QED
      BY <2>1, <2>2 DEF BetweenOK, About, Element
  <1> QED
    BY <1>2, <1>3, <1>4 DEF RunOK

LEMMA RunStep ==
    ASSUME SInv, StoresOK', ShapeOK', Grows, NEW r \in Run, Others(r), RunOK(r)',
           UsersComeLast', NoGroupHasACause', NoTagsHaveACause'
    PROVE  SInv'
  <1>1. ASSUME NEW x \in Run PROVE RunOK(x)'
    BY <1>1, RestStays DEF Others
  <1> QED
    BY <1>1 DEF SInv

\* On to the next element, when the one at hand has been dealt with.
LEMMA Continues ==
    ASSUME SInv, Grows, NEW r \in Run, run[r].status = "running", NEW unsaid,
           Continue(r, unsaid), NEW e \in Elements, e = Element(r),
           Kept(e)' \/ e \in unsaid, There(e)'
    PROVE  ShapeOK' /\ Others(r) /\ RunOK(r)'
  <1> DEFINE todo == run[r].todo
             rest == Tail(todo)
             status == IF rest = <<>> THEN "succeeded" ELSE run[r].status
             next == IF rest = <<>> THEN run[r].next ELSE FirstCall(rest[1][1])
  <1>1. run' = [run EXCEPT ![r].unsaid = @ \union unsaid, ![r].todo = rest,
                           ![r].status = status, ![r].next = next]
    BY DEF Continue
  <1>2. PlaceOK(r) /\ BehindOK(r) /\ todo # <<>> /\ ShapeOK
    BY RunFacts DEF PlaceOK, SInv
  <1> HIDE DEF todo, rest, status, next
  <1>3. ShapeOK' /\ Others(r)
    BY <1>1, <1>2 DEF ShapeOK, Fields, Others
  <1>4. run'[r] = [run[r] EXCEPT !.unsaid = @ \union unsaid, !.todo = rest,
                                 !.status = status, !.next = next]
    BY <1>1, <1>2 DEF ShapeOK
  <1>5. /\ run'[r].todo = rest /\ run'[r].status = status /\ run'[r].next = next
        /\ run'[r].unsaid = run[r].unsaid \union unsaid
        /\ run'[r].withPool = run[r].withPool
    BY <1>2, <1>4 DEF ShapeOK, Fields
  <1>6. /\ rest \in Seq(Elements) /\ Range(todo) = {e} \union Range(rest)
        /\ \A i \in DOMAIN rest : /\ i \in Nat /\ i + 1 \in DOMAIN todo
                                   /\ rest[i] = todo[i + 1]
    BY RunFacts DEF todo, rest
  <1>7. ASSUME rest # <<>>
        PROVE  /\ next \in {"PutItem", "PutParameter", "CreateUser"}
               /\ rest[1] \in ElementsOf(next) /\ status = "running"
    <2>1. rest[1] \in Elements
      BY <1>6, <1>7, EmptySeq, LenProperties
    <2> QED
      BY <1>7, <2>1, FirstCallFacts DEF next, status
  <1>8. PlaceOK(r)'
    <2>1. rest # <<>> => Head(rest) = rest[1]
      OBVIOUS
    <2>2. next \in Calls
      BY <1>2, <1>7 DEF PlaceOK, Calls, next
    <2>3. \A i, j \in DOMAIN rest : i < j /\ rest[i] \in User => rest[j] \in User
      <3>1. \A i, j \in DOMAIN todo : i < j /\ todo[i] \in User => todo[j] \in User
        BY <1>2 DEF PlaceOK, todo
      <3>2. ASSUME NEW i \in DOMAIN rest, NEW j \in DOMAIN rest, i < j, rest[i] \in User
            PROVE  rest[j] \in User
        <4>1. i + 1 \in DOMAIN todo /\ j + 1 \in DOMAIN todo /\ i + 1 < j + 1
          BY <1>6, <3>2
        <4> QED
          BY <1>6, <3>1, <3>2, <4>1
      <3> QED
        BY <3>2
    <2>4. status \in {"running", "succeeded"} /\ (status = "succeeded" => rest = <<>>)
          /\ (status = "running" => rest # <<>>)
      BY DEF status
    <2> QED
      BY <1>5, <1>6, <1>7, <2>1, <2>2, <2>3, <2>4 DEF PlaceOK, Element
  <1>9. BehindOK(r)'
    <2>1. run[r].withPool \in BOOLEAN
      BY <1>2 DEF BehindOK
    <2>2. ASSUME NEW x \in Range(main(run[r].withPool)) \ Range(rest)
          PROVE  (Kept(x)' \/ x \in run[r].unsaid \union unsaid) /\ There(x)'
      <3>1. x \in Elements
        BY <2>1, MainFacts, RangeOfSeq
      <3>2. CASE x = e
        BY <3>2
      <3>3. CASE x # e
        <4>1. (Kept(x) \/ x \in run[r].unsaid) /\ There(x)
          BY <1>2, <1>6, <3>3 DEF BehindOK, todo
        <4> QED
          BY <3>1, <4>1 DEF Grows
      <3> QED
        BY <3>2, <3>3
    <2> QED
      BY <1>5, <2>1, <2>2 DEF BehindOK
  <1>10. BetweenOK(r)'
    <2>1. status # "running" \/ next \notin {"AddToGroup", "Overwrite"}
      BY <1>7 DEF status
    <2> QED
      BY <1>5, <2>1 DEF BetweenOK, About
  <1> QED
    BY <1>3, <1>8, <1>9, <1>10 DEF RunOK

\* On to the next call for the same element, or no further at all.
LEMMA Stays ==
    ASSUME SInv, Grows, NEW r \in Run, run[r].status = "running",
           NEW status \in {"running", "failed", "killed"}, NEW next \in Calls,
           run' = [run EXCEPT ![r].status = status, ![r].next = next],
           NEW e \in Elements, e = Element(r),
           status = "running" => e \in ElementsOf(next),
           status = "running" /\ next = "AddToGroup" => Kept(e)',
           status = "running" /\ next = "Overwrite" => params'[e] \notin Missing \/ e \in raced'
    PROVE  ShapeOK' /\ Others(r) /\ RunOK(r)'
  <1>1. PlaceOK(r) /\ BehindOK(r) /\ ShapeOK
    BY RunFacts DEF SInv
  <1>2. ShapeOK' /\ Others(r)
    BY <1>1 DEF ShapeOK, Fields, Others
  <1>3. run'[r] = [run[r] EXCEPT !.status = status, !.next = next]
    BY <1>1 DEF ShapeOK
  <1>4. /\ run'[r].todo = run[r].todo /\ run'[r].status = status /\ run'[r].next = next
        /\ run'[r].unsaid = run[r].unsaid /\ run'[r].withPool = run[r].withPool
    BY <1>1, <1>3 DEF ShapeOK, Fields
  <1>5. Element(r)' = e
    BY <1>4 DEF Element
  <1>6. PlaceOK(r)'
    BY <1>1, <1>4, <1>5 DEF PlaceOK
  <1>7. BehindOK(r)'
    <2>1. run[r].withPool \in BOOLEAN
      BY <1>1 DEF BehindOK
    <2>2. ASSUME NEW x \in Range(main(run[r].withPool)) \ Range(run[r].todo)
          PROVE  (Kept(x)' \/ x \in run[r].unsaid) /\ There(x)'
      <3>1. x \in Elements
        BY <2>1, MainFacts, RangeOfSeq
      <3> QED
        BY <1>1, <2>2, <3>1 DEF BehindOK, Grows
    <2> QED
      BY <1>4, <2>1, <2>2 DEF BehindOK
  <1>8. BetweenOK(r)'
    <2>1. About(r, "AddToGroup")' => Kept(e)'
      BY <1>4 DEF About
    <2>2. About(r, "Overwrite")' => params'[e] \notin Missing \/ e \in raced'
      BY <1>4 DEF About
    <2> QED
      BY <1>5, <2>1, <2>2 DEF BetweenOK, Kept, IsSeeded
  <1> QED
    BY <1>2, <1>6, <1>7, <1>8 DEF RunOK

-----------------------------------------------------------------------------
(* What is written.                                                         *)

LEMMA ValueFacts ==
    /\ [isActive |-> TRUE, version |-> 1] \in Item
    /\ \A item \in Item : item \notin Missing
    /\ \A value \in Parameter \union Account : value \notin Missing
    /\ Absent # Gone
  BY MissingAssumption, BoundsAssumption DEF Item, Missing

LEMMA NothingWritten ==
    ASSUME SInv, UNCHANGED <<table, params, pool, known, touched, changes>>,
           raced \subseteq raced', faults' \in {faults, faults + 1}
    PROVE  StoresOK' /\ Grows
  <1>1. StoresOK'
    BY DEF SInv, StoresOK, EmailKept
  <1>2. Grows
    BY DEF Grows, Kept, IsSeeded, There
  <1> QED
    BY <1>1, <1>2

LEMMA TableWritten ==
    ASSUME SInv, NEW c \in Config, NEW item \in Item, item.version <= changes' + 1,
           table' = [table EXCEPT ![c] = item],
           item = [isActive |-> TRUE, version |-> 1] \/ c \in touched',
           touched \ {c} \subseteq touched',
           changes' \in {changes, changes + 1} \intersect 0 .. MaxChanges,
           UNCHANGED <<params, pool, known, raced, faults>>
    PROVE  StoresOK' /\ Grows
  <1>1. StoresOK /\ changes \in Nat
    BY BoundsAssumption DEF SInv, StoresOK
  <1>2. \A x \in Config : table'[x] = IF x = c THEN item ELSE table[x]
    BY <1>1 DEF StoresOK
  <1>3. table' \in [Config -> Item \union {Absent}] /\ item # Absent
    BY <1>1, ValueFacts DEF StoresOK, Missing
  <1>4. \A x \in Config : table'[x] # Absent => table'[x].version <= changes' + 1
    <2>1. ASSUME NEW x \in Config, x # c, table'[x] # Absent
          PROVE  table'[x].version <= changes' + 1
      <3>1. table'[x] = table[x] /\ table[x] \in Item /\ table[x].version <= changes + 1
        BY <1>1, <1>2, <2>1 DEF StoresOK
      <3>2. table[x].version \in Nat
        BY <3>1, BoundsAssumption DEF Item
      <3> QED
        BY <1>1, <3>1, <3>2
    <2> QED
      BY <1>2, <2>1
  <1>5. StoresOK'
    <2>1. \A u \in User : u \in touched => u \in touched'
      BY KindsDiffer
    <2> QED
      BY <1>1, <1>3, <1>4, <2>1 DEF StoresOK, EmailKept
  <1>6. Grows
    <2>1. ASSUME NEW e \in Elements
          PROVE  (Kept(e) => Kept(e)') /\ (There(e) => There(e)')
      <3>1. CASE e = c
        BY <1>2, <1>3, <3>1, KindsDiffer DEF Kept, IsSeeded, There
      <3>2. CASE e # c
        BY <1>2, <3>2 DEF Kept, IsSeeded, There
      <3> QED
        BY <3>1, <3>2
    <2> QED
      BY <2>1 DEF Grows
  <1> QED
    BY <1>5, <1>6

LEMMA ParamsWritten ==
    ASSUME SInv, NEW p \in Param, NEW value \in Parameter, value.seeded,
           params' = [params EXCEPT ![p] = value], Written(p),
           UNCHANGED <<table, pool, known, changes>>,
           raced \subseteq raced', faults' \in {faults, faults + 1}
    PROVE  StoresOK' /\ Grows
  <1>1. StoresOK
    BY DEF SInv
  <1>2. \A x \in Param : params'[x] = IF x = p THEN value ELSE params[x]
    BY <1>1 DEF StoresOK
  <1>3. value \notin Missing /\ touched' = touched \ {p}
    BY ValueFacts DEF Written
  <1>4. StoresOK'
    <2>1. \A u \in User : u \in touched => u \in touched'
      BY <1>3, KindsDiffer
    <2> QED
      BY <1>1, <2>1 DEF StoresOK, EmailKept
  <1>5. Grows
    <2>1. ASSUME NEW e \in Elements
          PROVE  (Kept(e) => Kept(e)') /\ (There(e) => There(e)')
      <3>1. CASE e = p
        BY <1>2, <1>3, <3>1, KindsDiffer DEF Kept, IsSeeded, There, Missing
      <3>2. CASE e # p
        BY <1>2, <1>3, <3>2 DEF Kept, IsSeeded, There
      <3> QED
        BY <3>1, <3>2
    <2> QED
      BY <1>2, <1>3, <2>1 DEF Grows
  <1> QED
    BY <1>4, <1>5

\* A change more leaves room for the versions there are.
LEMMA VersionsStay ==
    ASSUME StoresOK, changes' \in {changes, changes + 1}, NEW c \in Config, table[c] # Absent
    PROVE  table[c].version <= changes' + 1
  <1>1. table[c] \in Item /\ table[c].version <= changes + 1 /\ changes \in Nat
    BY BoundsAssumption DEF StoresOK
  <1>2. table[c].version \in Nat
    BY <1>1, BoundsAssumption DEF Item
  <1> QED
    BY <1>1, <1>2

LEMMA PoolWritten ==
    ASSUME SInv, NEW u \in User, NEW value \in Account \union {Gone},
           pool' = [pool EXCEPT ![u] = value],
           u \in touched' \/ (value \in Account /\ EmailKept(u, value)'),
           Kept(u) => u \in touched' \/ (value \in Account /\ value.seeded),
           touched \ {u} \subseteq touched',
           UNCHANGED <<table, params, known>>,
           changes' \in {changes, changes + 1} \intersect 0 .. MaxChanges,
           raced \subseteq raced', faults' \in {faults, faults + 1}
    PROVE  StoresOK' /\ Grows
  <1>1. StoresOK /\ changes \in Nat
    BY BoundsAssumption DEF SInv, StoresOK
  <1>2. \A x \in User : pool'[x] = IF x = u THEN value ELSE pool[x]
    BY <1>1 DEF StoresOK
  <1>3. StoresOK'
    <2>1. \A c \in Config : table[c] # Absent => table[c].version <= changes' + 1
      BY <1>1, VersionsStay
    <2>2. pool' \in [User -> Account \union Missing]
      BY <1>1 DEF StoresOK, Missing
    <2>3. \A x \in User : pool'[x] \notin Missing => EmailKept(x, pool[x])'
      <3>1. ASSUME NEW x \in User, pool'[x] \notin Missing, x # u
            PROVE  EmailKept(x, pool[x])'
        BY <1>1, <1>2, <3>1 DEF StoresOK, EmailKept
      <3>2. EmailKept(u, pool[u])'
        BY <1>2 DEF EmailKept
      <3> QED
        BY <3>1, <3>2
    <2> QED
      BY <1>1, <2>1, <2>2, <2>3 DEF StoresOK
  <1>4. Grows
    <2>1. ASSUME NEW e \in Elements
          PROVE  (Kept(e) => Kept(e)') /\ (There(e) => There(e)')
      <3>1. CASE e = u
        BY <1>2, <3>1, ValueFacts, KindsDiffer DEF Kept, IsSeeded, There, EmailKept
      <3>2. CASE e # u
        BY <1>2, <3>2 DEF Kept, IsSeeded, There
      <3> QED
        BY <3>1, <3>2
    <2> QED
      BY <2>1 DEF Grows
  <1> QED
    BY <1>3, <1>4

-----------------------------------------------------------------------------
(* The properties about all runs.                                           *)

LEMMA UsersStay ==
    ASSUME SInv, Grows, \A u \in User : pool[u] = Absent => pool'[u] = Absent
    PROVE  UsersComeLast'
  <1> SUFFICES ASSUME NEW u \in User \ known, pool'[u] # Absent
               PROVE  /\ \A c \in Config : table'[c] # Absent
                      /\ \A p \in Param : params'[p] # Absent
    BY DEF UsersComeLast, Grows
  <1>1. (\A c \in Config : table[c] # Absent) /\ (\A p \in Param : params[p] # Absent)
    BY DEF SInv, UsersComeLast
  <1> QED
    BY <1>1, KindsDiffer DEF Grows, There, Elements

LEMMA UsersNow ==
    ASSUME SInv, Grows, NEW r \in Run, run[r].status = "running", Element(r) \in User
    PROVE  UsersComeLast'
  BY AllThere, KindsDiffer DEF UsersComeLast, Grows, There, Elements

\* A run has ended or stands between the two calls that create a user.
Between(u) ==
    \E r \in Run : run[r].status # "succeeded" /\ run[r].next = "AddToGroup" /\ Element(r) = u

NoGroup(u) == pool[u] \notin Missing /\ ~pool[u].inGroup
NoTags(p) == params[p] \notin Missing /\ ~params[p].tagged

LEMMA GroupsStay ==
    ASSUME SInv, Grows,
           \A u \in User \ raced' :
               NoGroup(u)' => Between(u)' \/ (NoGroup(u) /\ (Between(u) => Between(u)'))
    PROVE  NoGroupHasACause'
  <1>1. \A u \in User \ (known \union raced) : NoGroup(u) => Between(u)
    BY DEF SInv, NoGroupHasACause, NoGroup, Between
  <1>2. \A u \in User \ (known' \union raced') : NoGroup(u)' => Between(u)'
    BY <1>1 DEF Grows
  <1> QED
    BY <1>2 DEF NoGroupHasACause, NoGroup, Between

LEMMA BetweenStays ==
    ASSUME NEW r \in Run, Others(r), run[r].next # "AddToGroup", NEW u, Between(u)
    PROVE  Between(u)'
  BY DEF Between, Others, Element

LEMMA TagsStay ==
    ASSUME SInv, Grows, \A p \in Param \ raced' : NoTags(p)' => NoTags(p)
    PROVE  NoTagsHaveACause'
  <1>1. \A p \in Param \ known : NoTags(p) => p \in raced
    BY DEF SInv, NoTagsHaveACause, NoTags
  <1>2. \A p \in Param \ known' : NoTags(p)' => p \in raced'
    BY <1>1 DEF Grows
  <1> QED
    BY <1>2 DEF NoTagsHaveACause, NoTags

-----------------------------------------------------------------------------
(* One lemma per step of a run.                                             *)

LEMMA Thens ==
    ASSUME SInv, Grows, NEW r \in Run, run[r].status = "running", NEW command \in Calls,
           Then(r, command), NEW e \in Elements, e = Element(r), e \in ElementsOf(command),
           command = "AddToGroup" => Kept(e)',
           command = "Overwrite" => params'[e] \notin Missing \/ e \in raced'
    PROVE  /\ ShapeOK' /\ Others(r) /\ RunOK(r)'
           /\ run'[r].status = "running" /\ run'[r].next = command /\ Element(r)' = e
  <1>1. ShapeOK
    BY DEF SInv
  <1>2. run' = [run EXCEPT ![r].status = "running", ![r].next = command]
    BY <1>1 DEF Then, ShapeOK, Fields
  <1>3. /\ run'[r].status = "running" /\ run'[r].next = command /\ Element(r)' = e
    BY <1>1 DEF Then, ShapeOK, Fields, Element
  <1> QED
    BY <1>2, <1>3, Stays

LEMMA Stops ==
    ASSUME SInv, Grows, NEW r \in Run, run[r].status = "running",
           NEW status \in {"failed", "killed"}, Stop(r, status)
    PROVE  /\ ShapeOK' /\ Others(r) /\ RunOK(r)'
           /\ \A u \in User : Between(u) => Between(u)'
  <1>1. ShapeOK /\ run[r].next \in Calls
    BY RunFacts DEF SInv, PlaceOK
  <1>2. PICK next \in Calls : next = run[r].next
    BY <1>1
  <1>3. PICK e \in Elements : e = Element(r)
    BY RunFacts
  <1>4. run' = [run EXCEPT ![r].status = status, ![r].next = next]
    BY <1>1, <1>2 DEF Stop, ShapeOK, Fields
  <1>5. ShapeOK' /\ Others(r) /\ RunOK(r)'
    BY <1>3, <1>4, Stays
  <1>6. \A x \in Run : /\ run'[x].next = run[x].next /\ run'[x].todo = run[x].todo
                       /\ run'[x].status = IF x = r THEN status ELSE run[x].status
    BY <1>1 DEF Stop, ShapeOK, Fields
  <1>7. \A u \in User : Between(u) => Between(u)'
    BY <1>6 DEF Between, Element
  <1> QED
    BY <1>5, <1>7

LEMMA StartSInv ==
    ASSUME SInv, NEW r \in Run, Start(r)
    PROVE  SInv'
  <1>1. /\ run[r].status = "waiting" /\ UNCHANGED <<table, params, pool, known, touched, changes>>
        /\ raced' = raced /\ faults' = faults
    BY DEF Start
  <1>2. PICK withPool \in BOOLEAN :
          run' = [run EXCEPT ![r] = [Waiting EXCEPT !.status = "running", !.todo = main(withPool),
                                                    !.next = FirstCall(main(withPool)[1][1]),
                                                    !.withPool = withPool]]
    BY DEF Start
  <1>3. StoresOK' /\ Grows
    BY <1>1, NothingWritten
  <1>4. /\ ShapeOK' /\ Others(r)
        /\ run'[r].status = "running" /\ run'[r].todo = main(withPool)
        /\ run'[r].next = FirstCall(main(withPool)[1][1]) /\ run'[r].withPool = withPool
    BY <1>2 DEF SInv, ShapeOK, Fields, Others, Waiting
  <1>5. /\ main(withPool) \in Seq(Elements) /\ main(withPool) # <<>>
        /\ main(withPool)[1] \in Elements /\ Head(main(withPool)) = main(withPool)[1]
    BY MainFacts, EmptySeq, LenProperties
  <1>6. /\ run'[r].next \in {"PutItem", "PutParameter", "CreateUser"}
        /\ main(withPool)[1] \in ElementsOf(run'[r].next)
    <2>1. PICK e \in Elements : e = main(withPool)[1]
      BY <1>5
    <2> QED
      BY <1>4, <2>1, FirstCallFacts
  <1>7. PlaceOK(r)'
    BY <1>4, <1>5, <1>6, MainFacts DEF PlaceOK, Calls, Element
  <1>8. BehindOK(r)' /\ BetweenOK(r)'
    BY <1>4, <1>6 DEF BehindOK, BetweenOK, About
  <1>9. run[r].next # "AddToGroup"
    BY <1>1, RunFacts DEF PlaceOK
  <1>10. UsersComeLast' /\ NoGroupHasACause' /\ NoTagsHaveACause'
    BY <1>1, <1>3, <1>4, <1>9, UsersStay, GroupsStay, BetweenStays, TagsStay DEF NoGroup, NoTags
  <1> QED
    BY <1>3, <1>4, <1>7, <1>8, <1>10, RunStep DEF RunOK

LEMMA PutItemSInv ==
    ASSUME SInv, NEW r \in Run, PutItem(r)
    PROVE  SInv'
  <1>1. /\ run[r].status = "running" /\ run[r].next = "PutItem" /\ Continue(r, {})
        /\ touched' = touched \ {Element(r)}
        /\ UNCHANGED <<params, pool, known, raced, faults, changes>>
    BY DEF PutItem, About, Written
  <1>2. PICK e \in Config : e = Element(r)
    BY <1>1, RunFacts DEF ElementsOf
  <1>3. PICK item \in Item : item = [isActive |-> TRUE, version |-> 1]
    BY ValueFacts
  <1>4. StoresOK /\ changes \in Nat /\ changes \in 0 .. MaxChanges /\ item.version = 1
    BY <1>3, BoundsAssumption DEF SInv, StoresOK
  <1>5. table' = [table EXCEPT ![e] = item]
    BY <1>2, <1>3 DEF PutItem
  <1>6. StoresOK' /\ Grows
    <2>1. /\ item.version <= changes' + 1 /\ touched \ {e} \subseteq touched'
          /\ changes' \in {changes, changes + 1} \intersect 0 .. MaxChanges
      BY <1>1, <1>2, <1>4
    <2> QED
      BY <1>1, <1>3, <1>5, <2>1, TableWritten
  <1>7. Kept(e)' /\ There(e)' /\ e \in Elements
    <2>1. table'[e] = item
      BY <1>4, <1>5 DEF StoresOK
    <2> QED
      BY <1>3, <2>1, ValueFacts, KindsDiffer DEF Kept, IsSeeded, There, Elements, Missing
  <1>8. ShapeOK' /\ Others(r) /\ RunOK(r)'
    BY <1>1, <1>2, <1>6, <1>7, Continues
  <1>9. UsersComeLast' /\ NoGroupHasACause' /\ NoTagsHaveACause'
    BY <1>1, <1>6, <1>8, UsersStay, GroupsStay, BetweenStays, TagsStay DEF NoGroup, NoTags
  <1> QED
    BY <1>6, <1>8, <1>9, RunStep

\* A parameter is put by a run, with or without tags.
LEMMA ParameterPutSInv ==
    ASSUME SInv, NEW r \in Run, run[r].status = "running",
           run[r].next \in {"PutParameter", "Overwrite"}, Continue(r, {}),
           NEW p \in Param, p = Element(r), NEW value \in Parameter, value.seeded,
           params' = [params EXCEPT ![p] = value], Written(p),
           value.tagged \/ NoTags(p) \/ p \in raced,
           UNCHANGED <<table, pool, known, raced, faults, changes>>
    PROVE  SInv'
  <1>1. StoresOK' /\ Grows
    BY ParamsWritten
  <1>2. \A x \in Param : params'[x] = IF x = p THEN value ELSE params[x]
    BY DEF SInv, StoresOK
  <1>3. Kept(p)' /\ There(p)' /\ p \in Elements
    BY <1>2, ValueFacts, KindsDiffer DEF Kept, IsSeeded, There, Elements, Missing
  <1>4. ShapeOK' /\ Others(r) /\ RunOK(r)'
    BY <1>1, <1>3, Continues
  <1>5. NoTagsHaveACause'
    BY <1>1, <1>2, TagsStay DEF NoTags
  <1>6. UsersComeLast' /\ NoGroupHasACause'
    BY <1>1, <1>4, UsersStay, GroupsStay, BetweenStays DEF NoGroup
  <1> QED
    BY <1>1, <1>4, <1>5, <1>6, RunStep

LEMMA PutParameterSInv ==
    ASSUME SInv, NEW r \in Run, PutParameter(r)
    PROVE  SInv'
  <1>1. /\ run[r].status = "running" /\ run[r].next = "PutParameter"
        /\ UNCHANGED <<table, pool, known, raced, faults, changes>>
    BY DEF PutParameter, About
  <1>2. PICK p \in Param : p = Element(r)
    BY <1>1, RunFacts DEF ElementsOf
  <1>3. CASE params[p] \in Missing
    <2>1. PICK value \in Parameter : value = [seeded |-> TRUE, tagged |-> TRUE]
      BY DEF Parameter
    <2>2. /\ params' = [params EXCEPT ![p] = value] /\ Written(p) /\ Continue(r, {})
          /\ value.seeded /\ value.tagged
      BY <1>2, <1>3, <2>1 DEF PutParameter
    <2> QED
      BY <1>1, <1>2, <2>2, ParameterPutSInv
  <1>4. CASE params[p] \notin Missing
    <2>1. Then(r, "Overwrite") /\ UNCHANGED <<params, touched>>
      BY <1>2, <1>4 DEF PutParameter
    <2>2. StoresOK' /\ Grows
      BY <1>1, <2>1, NothingWritten
    <2>3. ShapeOK' /\ Others(r) /\ RunOK(r)'
      BY <1>1, <1>2, <1>4, <2>1, <2>2, Thens DEF Calls, Elements, ElementsOf
    <2>4. UsersComeLast' /\ NoGroupHasACause' /\ NoTagsHaveACause'
      BY <1>1, <2>1, <2>2, <2>3, UsersStay, GroupsStay, BetweenStays, TagsStay
         DEF NoGroup, NoTags
    <2> QED
      BY <2>2, <2>3, <2>4, RunStep
  <1> QED
    BY <1>3, <1>4

LEMMA OverwriteSInv ==
    ASSUME SInv, NEW r \in Run, Overwrite(r)
    PROVE  SInv'
  <1>1. /\ run[r].status = "running" /\ run[r].next = "Overwrite" /\ Continue(r, {})
        /\ UNCHANGED <<table, pool, known, raced, faults, changes>>
    BY DEF Overwrite, About
  <1>2. PICK p \in Param : p = Element(r)
    BY <1>1, RunFacts DEF ElementsOf
  <1>3. params[p] \in Parameter \union Missing
    BY DEF SInv, StoresOK
  <1>4. PICK value \in Parameter :
          value = [seeded |-> TRUE, tagged |-> params[p] \notin Missing /\ params[p].tagged]
    <2>1. (params[p] \notin Missing /\ params[p].tagged) \in BOOLEAN
      OBVIOUS
    <2> QED
      BY <2>1 DEF Parameter
  <1>5. params' = [params EXCEPT ![p] = value] /\ Written(p) /\ value.seeded
    BY <1>2, <1>4 DEF Overwrite, SInv, StoresOK
  <1>6. value.tagged \/ NoTags(p) \/ p \in raced
    <2>1. params[p] \notin Missing \/ p \in raced
      BY <1>1, <1>2, RunFacts DEF BetweenOK, About
    <2> QED
      BY <1>4, <2>1 DEF NoTags
  <1> QED
    BY <1>1, <1>2, <1>5, <1>6, ParameterPutSInv

LEMMA CreateUserSInv ==
    ASSUME SInv, NEW r \in Run, CreateUser(r)
    PROVE  SInv'
  <1>1. /\ run[r].status = "running" /\ run[r].next = "CreateUser"
        /\ UNCHANGED <<table, params, known, raced, faults, changes>>
    BY DEF CreateUser, About
  <1>2. PICK u \in User : u = Element(r)
    BY <1>1, RunFacts DEF ElementsOf
  <1>3. StoresOK /\ changes \in 0 .. MaxChanges
    BY DEF SInv, StoresOK
  <1>4. CASE pool[u] \in Missing
    <2>1. PICK value \in Account : value = Made
      BY DEF Account, Made
    <2>2. /\ pool' = [pool EXCEPT ![u] = value] /\ touched' = touched \ {u}
          /\ Then(r, "AddToGroup") /\ value.seeded /\ value.email
      BY <1>2, <1>4, <2>1 DEF CreateUser, Written, Made
    <2>3. StoresOK' /\ Grows
      BY <1>1, <1>3, <2>2, PoolWritten DEF EmailKept
    <2>4. \A x \in User : pool'[x] = IF x = u THEN value ELSE pool[x]
      BY <1>3, <2>2 DEF StoresOK
    <2>5. Kept(u)'
      BY <2>2, <2>4, ValueFacts DEF Kept, IsSeeded
    <2>6. /\ ShapeOK' /\ Others(r) /\ RunOK(r)'
          /\ run'[r].status = "running" /\ run'[r].next = "AddToGroup" /\ Element(r)' = u
      BY <1>1, <1>2, <2>2, <2>3, <2>5, Thens DEF Calls, Elements, ElementsOf
    <2>7. Between(u)'
      BY <2>6 DEF Between
    <2>8. NoGroupHasACause'
      <3>1. ASSUME NEW x \in User, NoGroup(x)'
            PROVE  Between(x)' \/ (NoGroup(x) /\ (Between(x) => Between(x)'))
        <4>1. CASE x = u
          BY <2>7, <4>1
        <4>2. CASE x # u
          BY <1>1, <2>4, <2>6, <3>1, <4>2, BetweenStays DEF NoGroup
        <4> QED
          BY <4>1, <4>2
      <3> QED
        BY <2>3, <3>1, GroupsStay
    <2>9. UsersComeLast' /\ NoTagsHaveACause'
      BY <1>1, <1>2, <2>3, UsersNow, TagsStay DEF NoTags
    <2> QED
      BY <2>3, <2>6, <2>8, <2>9, RunStep
  <1>5. CASE pool[u] \notin Missing
    <2>1. Then(r, "UpdateUser") /\ UNCHANGED <<pool, touched>>
      BY <1>2, <1>5 DEF CreateUser
    <2>2. StoresOK' /\ Grows
      BY <1>1, <2>1, NothingWritten
    <2>3. ShapeOK' /\ Others(r) /\ RunOK(r)'
      BY <1>1, <1>2, <2>1, <2>2, Thens DEF Calls, Elements, ElementsOf
    <2>4. UsersComeLast' /\ NoGroupHasACause' /\ NoTagsHaveACause'
      BY <1>1, <2>1, <2>2, <2>3, UsersStay, GroupsStay, BetweenStays, TagsStay
         DEF NoGroup, NoTags
    <2> QED
      BY <2>2, <2>3, <2>4, RunStep
  <1> QED
    BY <1>4, <1>5

LEMMA AddToGroupSInv ==
    ASSUME SInv, NEW r \in Run, AddToGroup(r)
    PROVE  SInv'
  <1>1. /\ run[r].status = "running" /\ run[r].next = "AddToGroup"
        /\ UNCHANGED <<table, params, known, touched, raced, faults, changes>>
    BY DEF AddToGroup, About
  <1>2. PICK u \in User : u = Element(r)
    BY <1>1, RunFacts DEF ElementsOf
  <1>3. StoresOK /\ changes \in 0 .. MaxChanges
    BY DEF SInv, StoresOK
  <1>4. CASE pool[u] \in Missing
    <2>1. Stop(r, "failed") /\ UNCHANGED pool
      BY <1>2, <1>4 DEF AddToGroup
    <2>2. StoresOK' /\ Grows
      BY <1>1, <2>1, NothingWritten
    <2>3. ShapeOK' /\ Others(r) /\ RunOK(r)' /\ \A x \in User : Between(x) => Between(x)'
      BY <1>1, <2>1, <2>2, Stops
    <2>4. UsersComeLast' /\ NoGroupHasACause' /\ NoTagsHaveACause'
      BY <1>1, <2>1, <2>2, <2>3, UsersStay, GroupsStay, TagsStay DEF NoGroup, NoTags
    <2> QED
      BY <2>2, <2>3, <2>4, RunStep
  <1>5. CASE pool[u] \notin Missing
    <2>1. pool[u] \in Account
      BY <1>3, <1>5 DEF StoresOK
    <2>2. PICK value \in Account : value = [pool[u] EXCEPT !.inGroup = TRUE]
      BY <2>1 DEF Account
    <2>3. value.seeded = pool[u].seeded /\ value.email = pool[u].email /\ value.inGroup
      BY <2>1, <2>2 DEF Account
    <2>4. Continue(r, {}) /\ pool' = [pool EXCEPT ![u] = value]
      BY <1>2, <1>3, <1>5, <2>2 DEF AddToGroup, StoresOK
    <2>5. Kept(u)
      BY <1>1, <1>2, RunFacts DEF BetweenOK, About
    <2>6. /\ u \in touched' \/ (value \in Account /\ value.seeded)
          /\ u \in touched' \/ (value \in Account /\ EmailKept(u, value)')
      BY <1>1, <2>3, <2>5, KindsDiffer DEF Kept, IsSeeded, EmailKept
    <2>7. StoresOK' /\ Grows
      BY <1>1, <1>3, <2>4, <2>6, PoolWritten
    <2>8. \A x \in User : pool'[x] = IF x = u THEN value ELSE pool[x]
      BY <1>3, <2>4 DEF StoresOK
    <2>9. u \in Elements /\ Kept(u)' /\ There(u)'
      BY <2>5, <2>7, KindsDiffer DEF Grows, There, Elements
    <2>10. ShapeOK' /\ Others(r) /\ RunOK(r)'
      BY <1>1, <1>2, <2>4, <2>7, <2>9, Continues
    <2>11. NoGroupHasACause'
      <3>1. ASSUME NEW x \in User, NoGroup(x)'
            PROVE  NoGroup(x) /\ (Between(x) => Between(x)')
        <4>1. x # u /\ pool'[x] = pool[x]
          BY <2>3, <2>8, <3>1 DEF NoGroup
        <4>2. ASSUME Between(x) PROVE Between(x)'
          <5>1. PICK y \in Run : /\ run[y].status # "succeeded" /\ run[y].next = "AddToGroup"
                                 /\ Element(y) = x
            BY <4>2 DEF Between
          <5>2. y # r /\ run'[y] = run[y]
            BY <1>2, <2>10, <4>1, <5>1 DEF Others
          <5> QED
            BY <5>1, <5>2 DEF Between, Element
        <4> QED
          BY <3>1, <4>1, <4>2 DEF NoGroup
      <3> QED
        BY <2>7, <3>1, GroupsStay
    <2>12. UsersComeLast' /\ NoTagsHaveACause'
      BY <1>1, <1>2, <2>7, UsersNow, TagsStay DEF NoTags
    <2> QED
      BY <2>7, <2>10, <2>11, <2>12, RunStep
  <1> QED
    BY <1>4, <1>5

\* The update of a user comes to nothing.
LEMMA UpdateUnsaidSInv ==
    ASSUME SInv, NEW r \in Run, run[r].status = "running", run[r].next = "UpdateUser",
           NEW u \in User, u = Element(r), Continue(r, {u}),
           UNCHANGED <<table, params, pool, known, touched, raced, changes>>,
           faults' \in {faults, faults + 1}
    PROVE  SInv'
  <1>1. StoresOK' /\ Grows
    BY NothingWritten
  <1>2. u \in Elements /\ There(u)'
    BY KindsDiffer DEF There, Elements
  <1>3. ShapeOK' /\ Others(r) /\ RunOK(r)'
    BY <1>1, <1>2, Continues
  <1>4. UsersComeLast' /\ NoGroupHasACause' /\ NoTagsHaveACause'
    BY <1>1, <1>3, UsersStay, GroupsStay, BetweenStays, TagsStay DEF NoGroup, NoTags
  <1> QED
    BY <1>1, <1>3, <1>4, RunStep

LEMMA UpdateUserSInv ==
    ASSUME SInv, NEW r \in Run, UpdateUser(r)
    PROVE  SInv'
  <1>1. /\ run[r].status = "running" /\ run[r].next = "UpdateUser"
        /\ UNCHANGED <<table, params, known, raced, faults, changes>>
    BY DEF UpdateUser, About
  <1>2. PICK u \in User : u = Element(r)
    BY <1>1, RunFacts DEF ElementsOf
  <1>3. StoresOK /\ changes \in 0 .. MaxChanges
    BY DEF SInv, StoresOK
  <1>4. CASE pool[u] \in Missing
    <2>1. Continue(r, {u}) /\ UNCHANGED <<pool, touched>>
      BY <1>2, <1>4 DEF UpdateUser
    <2> QED
      BY <1>1, <1>2, <2>1, UpdateUnsaidSInv
  <1>5. CASE pool[u] \notin Missing
    <2>1. pool[u] \in Account
      BY <1>3, <1>5 DEF StoresOK
    <2>2. PICK value \in Account : value = [pool[u] EXCEPT !.seeded = TRUE]
      BY <2>1 DEF Account
    <2>3. /\ value.seeded /\ value.inGroup = pool[u].inGroup /\ value.email = pool[u].email
          /\ EmailKept(u, pool[u])
      BY <1>3, <1>5, <2>1, <2>2 DEF Account, StoresOK
    <2>4. /\ Continue(r, {}) /\ pool' = [pool EXCEPT ![u] = value]
          /\ touched \ {u} \subseteq touched'
          /\ u \in touched' \/ EmailKept(u, value)'
          /\ u \in touched' \/ value.email \/ u \in known
      <3>1. Continue(r, {}) /\ pool' = [pool EXCEPT ![u] = value]
        BY <1>2, <1>3, <1>5, <2>2 DEF UpdateUser, StoresOK
      <3>2. IF pool[u].email THEN touched' = touched \ {u} ELSE touched' = touched
        BY <1>2, <1>5 DEF UpdateUser, Written
      <3> QED
        BY <1>1, <2>3, <3>1, <3>2 DEF EmailKept
    <2>5. StoresOK' /\ Grows
      BY <1>1, <1>3, <2>3, <2>4, PoolWritten
    <2>6. \A x \in User : pool'[x] = IF x = u THEN value ELSE pool[x]
      BY <1>3, <2>4 DEF StoresOK
    <2>7. u \in Elements /\ Kept(u)' /\ There(u)'
      BY <1>1, <2>3, <2>4, <2>6, ValueFacts, KindsDiffer DEF Kept, IsSeeded, There, Elements
    <2>8. ShapeOK' /\ Others(r) /\ RunOK(r)'
      BY <1>1, <1>2, <2>4, <2>5, <2>7, Continues
    <2>9. NoGroupHasACause'
      BY <1>1, <1>5, <2>3, <2>5, <2>6, <2>8, GroupsStay, BetweenStays DEF NoGroup
    <2>10. UsersComeLast' /\ NoTagsHaveACause'
      BY <1>1, <1>2, <2>5, UsersNow, TagsStay DEF NoTags
    <2> QED
      BY <2>5, <2>8, <2>9, <2>10, RunStep
  <1> QED
    BY <1>4, <1>5

LEMMA StopSInv ==
    ASSUME SInv, NEW r \in Run, run[r].status = "running",
           NEW status \in {"failed", "killed"}, Stop(r, status),
           UNCHANGED <<table, params, pool, known, touched, raced, changes>>,
           faults' \in {faults, faults + 1}
    PROVE  SInv'
  <1>1. StoresOK' /\ Grows
    BY NothingWritten
  <1>2. ShapeOK' /\ Others(r) /\ RunOK(r)' /\ \A u \in User : Between(u) => Between(u)'
    BY <1>1, Stops
  <1>3. UsersComeLast' /\ NoGroupHasACause' /\ NoTagsHaveACause'
    BY <1>1, <1>2, UsersStay, GroupsStay, TagsStay DEF NoGroup, NoTags
  <1> QED
    BY <1>1, <1>2, <1>3, RunStep

LEMMA CallFailsSInv ==
    ASSUME SInv, NEW r \in Run, CallFails(r) \/ Kill(r)
    PROVE  SInv'
  <1>1. /\ run[r].status = "running" /\ faults' \in {faults, faults + 1}
        /\ UNCHANGED <<table, params, pool, known, touched, raced, changes>>
    BY DEF CallFails, Kill, Fault
  <1>2. CASE CallFails(r) /\ About(r, "UpdateUser")
    <2>1. run[r].next = "UpdateUser" /\ Continue(r, {Element(r)})
      BY <1>2 DEF CallFails, About
    <2>2. PICK u \in User : u = Element(r)
      BY <1>1, <2>1, RunFacts DEF ElementsOf
    <2> QED
      BY <1>1, <2>1, <2>2, UpdateUnsaidSInv
  <1>3. CASE CallFails(r) /\ ~About(r, "UpdateUser")
    <2>1. Stop(r, "failed")
      BY <1>3 DEF CallFails
    <2> QED
      BY <1>1, <2>1, StopSInv
  <1>4. CASE Kill(r)
    <2>1. Stop(r, "killed")
      BY <1>4 DEF Kill
    <2> QED
      BY <1>1, <2>1, StopSInv
  <1> QED
    BY <1>2, <1>3, <1>4

-----------------------------------------------------------------------------
(* Lost answers and what others do: no run moves.                           *)

LEMMA OutsideStep ==
    ASSUME SInv, StoresOK', Grows, UNCHANGED run, UsersComeLast', NoTagsHaveACause',
           \A u \in User \ raced' : NoGroup(u)' => NoGroup(u)
    PROVE  SInv'
  <1>1. ShapeOK'
    BY DEF SInv, ShapeOK
  <1>2. ASSUME NEW r \in Run PROVE RunOK(r)'
    BY RestStays
  <1>3. \A u \in User : Between(u)' <=> Between(u)
    BY DEF Between, Element
  <1>4. NoGroupHasACause'
    BY <1>3, GroupsStay
  <1> QED
    BY <1>1, <1>2, <1>4 DEF SInv

LEMMA AnswerLostSInv ==
    ASSUME SInv, NEW r \in Run, AnswerLost(r)
    PROVE  SInv'
  <1>1. /\ run[r].status = "running" /\ faults' \in {faults, faults + 1}
        /\ UNCHANGED <<table, run, known, changes>> /\ StoresOK /\ changes \in 0 .. MaxChanges
        /\ raced \subseteq raced' /\ Written(Element(r))
    BY DEF AnswerLost, Fault, About, SInv, StoresOK
  <1>2. CASE About(r, "PutParameter")
    <2>1. PICK p \in Param : p = Element(r)
      BY <1>1, <1>2, RunFacts DEF ElementsOf, About
    <2>2. PICK value \in Parameter : value = [seeded |-> TRUE, tagged |-> TRUE]
      BY DEF Parameter
    <2>3. params' = [params EXCEPT ![p] = value] /\ UNCHANGED pool /\ value.seeded
      BY <1>2, <2>1, <2>2 DEF AnswerLost, About
    <2>4. StoresOK' /\ Grows
      BY <1>1, <2>1, <2>3, ParamsWritten
    <2>5. NoTagsHaveACause'
      <3>1. \A x \in Param : params'[x] = IF x = p THEN value ELSE params[x]
        BY <1>1, <2>3 DEF StoresOK
      <3>2. value.tagged
        BY <2>2
      <3> QED
        BY <2>4, <3>1, <3>2, TagsStay DEF NoTags
    <2>6. UsersComeLast'
      BY <2>3, <2>4, UsersStay
    <2> QED
      BY <1>1, <2>3, <2>4, <2>5, <2>6, OutsideStep DEF NoGroup
  <1>3. CASE About(r, "CreateUser")
    <2>1. PICK u \in User : u = Element(r)
      BY <1>1, <1>3, RunFacts DEF ElementsOf, About
    <2>2. PICK value \in Account : value = Made
      BY DEF Account, Made
    <2>3. /\ pool' = [pool EXCEPT ![u] = value] /\ UNCHANGED params /\ value.seeded
          /\ touched' = touched \ {u} /\ value.email /\ u \in raced'
      BY <1>1, <1>3, <2>1, <2>2 DEF AnswerLost, About, Written, Made
    <2>4. StoresOK' /\ Grows
      BY <1>1, <2>3, PoolWritten DEF EmailKept
    <2>5. UsersComeLast' /\ NoTagsHaveACause'
      BY <1>1, <2>1, <2>3, <2>4, UsersNow, TagsStay DEF NoTags
    <2>6. \A x \in User \ raced' : NoGroup(x)' => NoGroup(x)
      <3>1. \A x \in User : x # u => pool'[x] = pool[x]
        BY <1>1, <2>3 DEF StoresOK
      <3> QED
        BY <2>3, <3>1 DEF NoGroup
    <2> QED
      BY <1>1, <2>4, <2>5, <2>6, OutsideStep
  <1> QED
    BY <1>2, <1>3 DEF AnswerLost

LEMMA ChangeFacts ==
    ASSUME SInv, NEW e, Change(e)
    PROVE  /\ StoresOK /\ changes \in 0 .. MaxChanges /\ changes' = changes + 1
           /\ changes' \in {changes, changes + 1} \intersect 0 .. MaxChanges
           /\ touched' = touched \union {e} /\ UNCHANGED <<run, known, faults>>
  BY BoundsAssumption DEF SInv, StoresOK, Change

LEMMA DeactivateSInv ==
    ASSUME SInv, NEW c \in Config, Deactivate(c)
    PROVE  SInv'
  <1>1. /\ StoresOK /\ changes \in 0 .. MaxChanges /\ changes' = changes + 1
        /\ changes' \in {changes, changes + 1} \intersect 0 .. MaxChanges
        /\ touched' = touched \union {c} /\ UNCHANGED <<run, known, faults, params, pool, raced>>
        /\ table[c] # Absent
    BY ChangeFacts DEF Deactivate
  <1>2. table[c] \in Item /\ table[c].version <= changes + 1
    BY <1>1 DEF StoresOK
  <1>3. PICK item : item = [isActive |-> FALSE, version |-> table[c].version + 1]
    OBVIOUS
  <1>4. item \in Item /\ item.version <= changes' + 1
    <2>1. table[c].version \in 1 .. MaxChanges + 1 /\ changes \in Nat /\ changes < MaxChanges
          /\ MaxChanges \in Nat
      BY <1>1, <1>2, BoundsAssumption DEF Item
    <2> QED
      BY <1>1, <1>2, <1>3, <2>1 DEF Item
  <1>5. table' = [table EXCEPT ![c] = item]
    BY <1>1, <1>3 DEF Deactivate, StoresOK
  <1>6. StoresOK' /\ Grows
    BY <1>1, <1>4, <1>5, TableWritten
  <1>7. UsersComeLast' /\ NoTagsHaveACause'
    BY <1>1, <1>6, UsersStay, TagsStay DEF NoTags
  <1> QED
    BY <1>1, <1>6, <1>7, OutsideStep DEF NoGroup

LEMMA DeleteParameterSInv ==
    ASSUME SInv, NEW p \in Param, DeleteParameter(p)
    PROVE  SInv'
  <1>1. /\ StoresOK /\ changes \in 0 .. MaxChanges /\ changes' = changes + 1
        /\ changes' \in 0 .. MaxChanges
        /\ touched' = touched \union {p} /\ UNCHANGED <<run, known, faults, table, pool>>
        /\ params' = [params EXCEPT ![p] = Gone]
    BY ChangeFacts DEF DeleteParameter
  <1>2. \A x \in Param : params'[x] = IF x = p THEN Gone ELSE params[x]
    BY <1>1 DEF StoresOK
  <1>3. /\ raced \subseteq raced'
        /\ \A r \in Run : About(r, "Overwrite") /\ Element(r) = p => p \in raced'
    BY DEF DeleteParameter
  <1>4. StoresOK'
    <2>1. \A c \in Config : table[c] # Absent => table[c].version <= changes' + 1
      BY <1>1, VersionsStay
    <2>2. params' \in [Param -> Parameter \union Missing]
      BY <1>1 DEF StoresOK, Missing
    <2> QED
      BY <1>1, <2>1, <2>2 DEF StoresOK, EmailKept
  <1>5. Grows
    <2>1. ASSUME NEW e \in Elements
          PROVE  (Kept(e) => Kept(e)') /\ (There(e) => There(e)')
      <3>1. CASE e = p
        BY <1>1, <1>2, <3>1, ValueFacts, KindsDiffer DEF Kept, There
      <3>2. CASE e # p
        BY <1>1, <1>2, <3>2 DEF Kept, IsSeeded, There
      <3> QED
        BY <3>1, <3>2
    <2> QED
      BY <1>1, <1>2, <1>3, <2>1 DEF Grows
  <1>6. UsersComeLast' /\ NoTagsHaveACause'
    BY <1>1, <1>2, <1>5, UsersStay, TagsStay DEF NoTags, Missing
  <1> QED
    BY <1>1, <1>4, <1>5, <1>6, OutsideStep DEF NoGroup

LEMMA ChangeUserSInv ==
    ASSUME SInv, NEW u \in User, ChangeUser(u)
    PROVE  SInv'
  <1>1. /\ StoresOK /\ changes' \in {changes, changes + 1} \intersect 0 .. MaxChanges
        /\ touched' = touched \union {u} /\ UNCHANGED <<run, known, faults, table, params, raced>>
        /\ pool[u] \notin Missing
    BY ChangeFacts DEF ChangeUser
  <1>2. pool[u] \in Account
    BY <1>1 DEF StoresOK
  <1>3. PICK value \in Account \union {Gone} :
          /\ pool' = [pool EXCEPT ![u] = value]
          /\ value = Gone \/ value.inGroup = pool[u].inGroup
    <2>1. [pool[u] EXCEPT !.seeded = FALSE] \in Account
          /\ [pool[u] EXCEPT !.seeded = FALSE].inGroup = pool[u].inGroup
          /\ [pool[u] EXCEPT !.email = FALSE] \in Account
          /\ [pool[u] EXCEPT !.email = FALSE].inGroup = pool[u].inGroup
      BY <1>2 DEF Account
    <2>2. CASE pool' = [pool EXCEPT ![u].seeded = FALSE]
      <3>1. PICK value : value = [pool[u] EXCEPT !.seeded = FALSE]
        OBVIOUS
      <3>2. pool' = [pool EXCEPT ![u] = value]
        BY <2>2, <3>1
      <3> QED
        BY <2>1, <3>1, <3>2
    <2>3. CASE pool' = [pool EXCEPT ![u].email = FALSE]
      <3>1. PICK value : value = [pool[u] EXCEPT !.email = FALSE]
        OBVIOUS
      <3>2. pool' = [pool EXCEPT ![u] = value]
        BY <2>3, <3>1
      <3> QED
        BY <2>1, <3>1, <3>2
    <2>4. CASE pool' = [pool EXCEPT ![u] = Gone]
      BY <2>4
    <2> QED
      BY <2>2, <2>3, <2>4 DEF ChangeUser
  <1>4. StoresOK' /\ Grows
    BY <1>1, <1>3, PoolWritten
  <1>5. \A x \in User : pool'[x] = IF x = u THEN value ELSE pool[x]
    BY <1>1, <1>3 DEF StoresOK
  <1>6. UsersComeLast' /\ NoTagsHaveACause'
    BY <1>1, <1>4, <1>5, UsersStay, TagsStay DEF NoTags, Missing
  <1>7. \A x \in User : NoGroup(x)' => NoGroup(x)
    BY <1>1, <1>3, <1>5 DEF NoGroup, Missing
  <1> QED
    BY <1>1, <1>4, <1>6, <1>7, OutsideStep

-----------------------------------------------------------------------------
(* The whole.                                                               *)

LEMMA InitSInv ==
    ASSUME Init
    PROVE  SInv
  <1>1. ShapeOK /\ \A r \in Run : run[r].status = "waiting" /\ run[r].next = "PutItem"
                                  /\ run[r].todo = <<>>
    BY DEF Init, ShapeOK, Waiting, Fields
  <1>2. ASSUME NEW r \in Run PROVE RunOK(r)
    <2>1. DOMAIN <<>> = {} /\ <<>> \in Seq(Elements)
      BY EmptySeq
    <2> QED
      BY <1>1, <2>1 DEF RunOK, PlaceOK, BehindOK, BetweenOK, About, Calls
  <1>3. /\ \A p \in Param : params[p] \in Parameter \union Missing
                            /\ (p \notin known => params[p] = Absent)
        /\ \A u \in User : pool[u] \in Account \union Missing
                           /\ (u \notin known => pool[u] = Absent)
    BY DEF Init, Parameter, Account, Missing
  <1>4. StoresOK
    <2>1. \A c \in Config : table[c] = Absent
      BY DEF Init
    <2> QED
      BY <1>3, <2>1, BoundsAssumption DEF Init, StoresOK, EmailKept, Missing
  <1>5. UsersComeLast /\ NoGroupHasACause /\ NoTagsHaveACause
    BY <1>3 DEF UsersComeLast, NoGroupHasACause, NoTagsHaveACause, Missing
  <1> QED
    BY <1>1, <1>2, <1>4, <1>5 DEF SInv

LEMMA NextSInv == SInv /\ [Next]_svars => SInv'
  <1> SUFFICES ASSUME SInv, [Next]_svars PROVE SInv'
    OBVIOUS
  <1>1. ASSUME NEW r \in Run, Start(r) PROVE SInv'
    BY <1>1, StartSInv
  <1>2. ASSUME NEW r \in Run, Step(r) PROVE SInv'
    BY <1>2, PutItemSInv, PutParameterSInv, OverwriteSInv, CreateUserSInv, AddToGroupSInv,
       UpdateUserSInv DEF Step
  <1>3. ASSUME NEW r \in Run, CallFails(r) \/ Kill(r) PROVE SInv'
    BY <1>3, CallFailsSInv
  <1>4. ASSUME NEW r \in Run, AnswerLost(r) PROVE SInv'
    BY <1>4, AnswerLostSInv
  <1>5. ASSUME NEW c \in Config, Deactivate(c) PROVE SInv'
    BY <1>5, DeactivateSInv
  <1>6. ASSUME NEW p \in Param, DeleteParameter(p) PROVE SInv'
    BY <1>6, DeleteParameterSInv
  <1>7. ASSUME NEW u \in User, ChangeUser(u) PROVE SInv'
    BY <1>7, ChangeUserSInv
  <1>8. CASE UNCHANGED svars
    <2>1. UNCHANGED <<table, params, pool, run, known, touched, raced, faults, changes>>
      BY <1>8 DEF svars
    <2>2. StoresOK' /\ Grows
      BY <2>1, NothingWritten
    <2>3. UsersComeLast' /\ NoTagsHaveACause'
      BY <2>1, <2>2, UsersStay, TagsStay DEF NoTags
    <2> QED
      BY <2>1, <2>2, <2>3, OutsideStep DEF NoGroup
  <1> QED
    BY <1>1, <1>2, <1>3, <1>4, <1>5, <1>6, <1>7, <1>8 DEF Next

LEMMA SInvHolds == Spec => []SInv
  <1> QED
    BY InitSInv, NextSInv, PTL DEF Spec

-----------------------------------------------------------------------------
\* The type invariant: the stores hold what the script or somebody has put there, and
\* a run that is under way has an element before it and a call that suits it.
THEOREM TypeCorrect == Spec => []TypeOK
  <1>1. SInv => TypeOK
    <2> SUFFICES ASSUME SInv PROVE TypeOK
      OBVIOUS
    <2>1. ASSUME NEW r \in Run, run[r].status = "running"
          PROVE  Element(r) \in CASE run[r].next = "PutItem" -> Config
                                  [] run[r].next \in {"PutParameter", "Overwrite"} -> Param
                                  [] OTHER -> User
      BY <2>1, RunFacts DEF ElementsOf
    <2> QED
      BY <2>1 DEF TypeOK, SInv, StoresOK, RunOK, PlaceOK
  <1> QED
    BY <1>1, SInvHolds, PTL

\* main and the process's exit code: after an exit with 0 each configuration of the run
\* is the script's, each parameter has its value, and each user its tenant, its role
\* and, unless it was made by hand, its email, whatever other runs have left, done or
\* are doing; but for what somebody else changed and no run has put right, and users
\* whose update failed, which is only logged.
THEOREM ExitZeroMeansSeeded == Spec => []SuccessMeansSeeded
  <1>1. SInv => SuccessMeansSeeded
    <2> SUFFICES ASSUME SInv, NEW r \in Run, run[r].status = "succeeded",
                        NEW e \in Range(main(run[r].withPool)) \ (touched \union run[r].unsaid)
                 PROVE  IsSeeded(e)
      BY DEF SuccessMeansSeeded
    <2>1. BehindOK(r) /\ Range(run[r].todo) = {}
      <3>1. run[r].todo = <<>> /\ DOMAIN <<>> = {}
        BY RunFacts DEF PlaceOK
      <3> QED
        BY <3>1, RunFacts DEF Range
    <2> QED
      BY <2>1 DEF BehindOK, Kept
  <1> QED
    BY <1>1, SInvHolds, PTL

\* The order of main: however many runs overlap, fail and are repeated, a user of the
\* script exists only when every configuration and every parameter has been there.
THEOREM UsersAreLast == Spec => []UsersComeLast
  <1>1. SInv => UsersComeLast
    BY DEF SInv
  <1> QED
    BY <1>1, SInvHolds, PTL

\* seedCognitoUsers, two calls and no transaction: a user without the group it should
\* be in is one whose run stands, or has ended, between the two, or whose creation was
\* answered to nobody.
THEOREM MissingGroupExplained == Spec => []NoGroupHasACause
  <1>1. SInv => NoGroupHasACause
    BY DEF SInv
  <1> QED
    BY <1>1, SInvHolds, PTL

\* seedSSM, whose call cannot both overwrite and tag: a parameter of the script's
\* without tags was deleted between the call that found it and the overwriting one.
THEOREM MissingTagsExplained == Spec => []NoTagsHaveACause
  <1>1. SInv => NoTagsHaveACause
    BY DEF SInv
  <1> QED
    BY <1>1, SInvHolds, PTL
=============================================================================
