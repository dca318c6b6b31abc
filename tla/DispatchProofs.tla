----------------------------- MODULE DispatchProofs -----------------------------
(****************************************************************************)
(* The interaction model's dispatch, for any list of entries, any           *)
(* sessions, objects and requests. No induction over the data is needed     *)
(* that Iteration does not give: the evaluation of an access control list,  *)
(* the items of a write or an invocation and the endpoints of a wildcard    *)
(* are each the last of the states that one step after the other makes,     *)
(* and a step keeps Good: the list holds admitted entries only, and every   *)
(* call made so far was deserved when it was made.                          *)
(*                                                                          *)
(* The admitted entries are a parameter: all that a client can write        *)
(* (Entry) for the type invariant and for CallsAreDeserved, those whose     *)
(* targets can be matched (UsableEntry) for RequestsAreAnswered, where no   *)
(* evaluation fails.                                                        *)
(*                                                                          *)
(* Wildcards: both kinds of path of a read show what one predicate says      *)
(* (Shows); the walk of an invocation has called what the concrete ones     *)
(* would, up to where it ended itself or its fields were used up (Follows). *)
(****************************************************************************)
EXTENDS Dispatch, Iteration, SequenceTheorems

(* What makes an entry count for a session and an object, in any order.         *)
Hits(entry, object) ==
    \/ entry.targets = <<>>
    \/ \E target \in ToSet(entry.targets) : TargetMatches(target, object)
Counts(entry, isd, object) == EntryApplies(entry, isd) /\ Hits(entry, object)

Outcome == {"match", "no match", "empty target", "ambiguous target"}

(* The loop over the targets, which ends early, says whether the entry hits     *)
(* unless an assertion fails, and none does over usable targets.                *)
LEMMA OutcomeTells ==
    ASSUME NEW entry, IsList(entry.targets), NEW object
    PROVE  /\ TargetOutcome(entry, object) \in Outcome
           /\ TargetOutcome(entry, object) = "match" => Hits(entry, object)
           /\ TargetOutcome(entry, object) = "no match" => ~Hits(entry, object)
           /\ ~Unusable(entry) =>
                 TargetOutcome(entry, object) \in {"match", "no match"}
<1> DEFINE ts == entry.targets
           Stops(i) == IsEmpty(ts[i]) \/ IsAmbiguous(ts[i])
                       \/ TargetMatches(ts[i], object)
           stops == {i \in DOMAIN ts : Stops(i)}
           target == ts[Min(stops)]
           outcome == TargetOutcome(entry, object)
<1>1. /\ DOMAIN ts \subseteq Nat
      /\ ts = <<>> => DOMAIN ts = {}
  BY DEF IsList
<1>2. outcome = CASE ts = <<>> -> "match"
                  [] ts # <<>> /\ stops = {} -> "no match"
                  [] stops # {} /\ IsEmpty(target) -> "empty target"
                  [] stops # {} /\ IsAmbiguous(target) -> "ambiguous target"
                  [] OTHER -> "match"
  BY DEF TargetOutcome
<1>3. Hits(entry, object) <=> (ts = <<>> \/ \E i \in DOMAIN ts : TargetMatches(ts[i], object))
  BY DEF Hits, ToSet
<1>4. Unusable(entry) <=> \E i \in DOMAIN ts : IsEmpty(ts[i]) \/ IsAmbiguous(ts[i])
  BY DEF Unusable, ToSet
<1>5. CASE ts = <<>>
  <2>1. outcome = "match"
    BY <1>1, <1>2, <1>5
  <2> QED
    BY <1>5, <2>1 DEF Outcome, Hits
<1>6. CASE ts # <<>> /\ stops = {}
  <2>1. outcome = "no match"
    BY <1>2, <1>6
  <2>2. ~ \E i \in DOMAIN ts : TargetMatches(ts[i], object)
    BY <1>6
  <2> QED
    BY <1>3, <1>6, <2>1, <2>2 DEF Outcome
<1>7. CASE ts # <<>> /\ stops # {}
  <2>1. Min(stops) \in stops
    <3>1. stops \in SUBSET Nat
      BY <1>1
    <3> HIDE DEF stops
    <3>2. \E x \in stops : \A y \in stops : x <= y
      BY <1>7, <3>1, LeastOf
    <3> QED
      BY <3>2 DEF Min
  <2>2. Min(stops) \in DOMAIN ts /\ Stops(Min(stops))
    BY <2>1
  <2> HIDE DEF Stops, stops
  <2>3. CASE IsEmpty(target) \/ IsAmbiguous(target)
    <3>1. outcome \in {"empty target", "ambiguous target"}
      BY <1>2, <1>7, <2>3
    <3> QED
      BY <1>4, <2>2, <2>3, <3>1 DEF Outcome
  <2>4. CASE ~IsEmpty(target) /\ ~IsAmbiguous(target)
    <3>1. outcome = "match"
      BY <1>2, <1>7, <2>4
    <3>2. TargetMatches(target, object)
      BY <2>2, <2>4 DEF Stops
    <3> QED
      BY <1>3, <2>2, <3>1, <3>2 DEF Outcome
  <2> QED
    BY <2>3, <2>4
<1> QED
  BY <1>5, <1>6, <1>7

(* The entries of the list, as the code makes them.                             *)
LEMMA EntryIsTyped ==
    ASSUME NEW entry \in Entry
    PROVE  /\ IsList(entry.targets)
           /\ entry.privilege_level \in Privileges
<1>1. entry.privilege_level \in Privileges
  BY DEF Entry
<1>2. CASE \E i \in FabricIndex : entry = Administrator(i)
  <2>1. entry.targets = <<>>
    BY <1>2 DEF Administrator
  <2>2. <<>> \in Seq(ToSet(<<>>))
    OBVIOUS
  <2> QED
    BY <1>1, <2>1, <2>2 DEF IsList
<1>3. CASE \E struct \in Struct, i \in FabricIndex \cup {0} : entry = Stored(struct, i)
  <2>1. PICK struct \in Struct, i \in FabricIndex \cup {0} : entry = Stored(struct, i)
    BY <1>3
  <2>2. IsList(struct.targets)
    BY <2>1, RequestAssumption DEF Struct
  <2>3. PICK n \in Nat : DOMAIN struct.targets = 1 .. n
    BY <2>2 DEF IsList
  <2>4. DOMAIN entry.targets = 1 .. n
        /\ entry.targets = [k \in 1 .. n |-> entry.targets[k]]
    BY <2>1, <2>3 DEF Stored
  <2>5. entry.targets \in [1 .. n -> ToSet(entry.targets)]
    BY <2>4 DEF ToSet
  <2>6. entry.targets \in Seq(ToSet(entry.targets))
    BY <2>5
  <2> QED
    BY <1>1, <2>6 DEF IsList
<1> QED
  BY <1>2, <1>3 DEF Entry
-----------------------------------------------------------------------------
(* What the first n entries of a list give a session on an object.              *)
Commissioner(isd) ==
    IF isd.authentication_mode = "PASE" /\ isd.is_commissioning THEN Privileges ELSE {}
Earned(list, isd, object, n) ==
    Commissioner(isd) \cup
    UNION {Implied[list[k].privilege_level] :
              k \in {j \in 1 .. n : Counts(list[j], isd, object)}}

(* What a privilege implies, itself included.                              *)
LEMMA PrivilegesAre ==
    /\ Privileges = {"View", "Operate", "Manage", "Administer"}
    /\ \A p \in Privileges : Implied[p] \subseteq Privileges
    /\ \A p \in Privileges : "Administer" \in Implied[p] => Implied[p] = Privileges
BY DEF Privileges, Implied

(* What the first n entries earn are privileges the session deserves.      *)
LEMMA EarnedBounds ==
    ASSUME NEW list \in Seq(Entry), NEW isd, NEW object, NEW n \in 0 .. Len(list)
    PROVE  /\ Earned(list, isd, object, n) \subseteq Privileges
           /\ "Administer" \in Earned(list, isd, object, n) =>
                 Earned(list, isd, object, n) = Privileges
<1>1. \A k \in 1 .. n : list[k].privilege_level \in Privileges
  BY EntryIsTyped
<1>2. Commissioner(isd) = Privileges \/ Commissioner(isd) = {}
  BY DEF Commissioner
<1>3. Earned(list, isd, object, n) \subseteq Privileges
  BY <1>1, <1>2, PrivilegesAre DEF Earned
<1>4. ASSUME "Administer" \in Earned(list, isd, object, n)
      PROVE  Privileges \subseteq Earned(list, isd, object, n)
  <2>1. CASE Commissioner(isd) = Privileges
    BY <2>1 DEF Earned
  <2>2. CASE Commissioner(isd) = {}
    <3>1. PICK k \in 1 .. n : /\ Counts(list[k], isd, object)
                              /\ "Administer" \in Implied[list[k].privilege_level]
      BY <1>4, <2>2 DEF Earned
    <3>2. Implied[list[k].privilege_level] = Privileges
      BY <1>1, <3>1, PrivilegesAre
    <3> QED
      BY <3>1, <3>2 DEF Earned
  <2> QED
    BY <1>2, <2>1, <2>2
<1> QED
  BY <1>3, <1>4

(* One more entry earns what its privilege implies, if it counts.          *)
LEMMA EarnedGrows ==
    ASSUME NEW list \in Seq(Entry), NEW isd, NEW object, NEW n \in 0 .. Len(list) - 1
    PROVE  Earned(list, isd, object, n + 1) =
              IF Counts(list[n + 1], isd, object)
              THEN Earned(list, isd, object, n)
                   \cup Implied[list[n + 1].privilege_level]
              ELSE Earned(list, isd, object, n)
<1> DEFINE C(j) == Counts(list[j], isd, object)
           P(j) == Implied[list[j].privilege_level]
<1>1. n \in Nat /\ 1 .. n + 1 = (1 .. n) \cup {n + 1}
  OBVIOUS
<1>2. \A p : p \in Earned(list, isd, object, n + 1) <=>
                p \in Commissioner(isd) \/ \E j \in 1 .. n + 1 : C(j) /\ p \in P(j)
  BY Zenon DEF Earned
<1>3. \A p : p \in Earned(list, isd, object, n) <=>
                p \in Commissioner(isd) \/ \E j \in 1 .. n : C(j) /\ p \in P(j)
  BY Zenon DEF Earned
<1> HIDE DEF C, P
<1>4. \A p : p \in Earned(list, isd, object, n + 1) <=>
                p \in Earned(list, isd, object, n) \/ (C(n + 1) /\ p \in P(n + 1))
  BY <1>1, <1>2, <1>3
<1>5. CASE C(n + 1)
  <2>1. Earned(list, isd, object, n + 1) = Earned(list, isd, object, n) \cup P(n + 1)
    BY <1>4, <1>5
  <2> QED
    BY <1>5, <2>1 DEF C, P
<1>6. CASE ~C(n + 1)
  <2>1. Earned(list, isd, object, n + 1) = Earned(list, isd, object, n)
    BY <1>4, <1>6
  <2> QED
    BY <1>6, <2>1 DEF C
<1> QED
  BY <1>5, <1>6

(* The reference definition: what all entries earn, with what a            *)
(* commissioner has.                                                       *)
LEMMA DeservedIsEarned ==
    ASSUME NEW list \in Seq(Entry), NEW isd, NEW object
    PROVE  Deserved(list, isd, object) = Earned(list, isd, object, Len(list))
<1> DEFINE Deserving == {e \in ToSet(list) : Counts(e, isd, object)}
<1>1. Deserving = {e \in ToSet(list) :
                   /\ e.fabric_index = isd.fabric_index /\ isd.fabric_index # 0
                   /\ e.authentication_mode = isd.authentication_mode
                   /\ \/ e.subjects = <<>>
                      \/ \E s \in ToSet(e.subjects) : SubjectMatches(s, isd)
                   /\ \/ e.targets = <<>>
                      \/ \E t \in ToSet(e.targets) : TargetMatches(t, object)}
  BY DEF Counts, EntryApplies, Hits
<1>2. Deserved(list, isd, object) =
         UNION ({Implied[entry.privilege_level] : entry \in Deserving}
                \cup {Privileges : x \in {n \in {isd} : /\ n.is_commissioning
                                                        /\ n.authentication_mode = "PASE"}})
  BY <1>1 DEF Deserved
<1> HIDE DEF Deserving
<1>3. {Privileges : x \in {n \in {isd} : /\ n.is_commissioning
                                          /\ n.authentication_mode = "PASE"}} =
      IF isd.authentication_mode = "PASE" /\ isd.is_commissioning THEN {Privileges} ELSE {}
  BY Zenon
<1>4. \A p : p \in Deserved(list, isd, object) <=>
                \/ p \in Commissioner(isd)
                \/ \E e \in Deserving : p \in Implied[e.privilege_level]
  BY <1>2, <1>3 DEF Commissioner
<1>5. DOMAIN list = 1 .. Len(list)
  OBVIOUS
<1>6. \A p : (\E e \in Deserving : p \in Implied[e.privilege_level]) <=>
             (\E j \in 1 .. Len(list) : /\ Counts(list[j], isd, object)
                                        /\ p \in Implied[list[j].privilege_level])
  BY <1>5 DEF Deserving, ToSet
<1>7. \A p : p \in Earned(list, isd, object, Len(list)) <=>
                \/ p \in Commissioner(isd)
                \/ \E j \in 1 .. Len(list) : /\ Counts(list[j], isd, object)
                                             /\ p \in Implied[list[j].privilege_level]
  BY Zenon DEF Earned
<1>8. \A p : p \in Deserved(list, isd, object) <=> p \in Earned(list, isd, object, Len(list))
  BY <1>4, <1>6, <1>7, Zenon
<1> QED
  BY <1>8
-----------------------------------------------------------------------------
Result == [granted : SUBSET Privileges, failed : {None, "empty target", "ambiguous target"}]
Fresh(isd) == [granted |-> Commissioner(isd), failed |-> None]

LEMMA VisitedIsResult ==
    ASSUME NEW result \in Result, NEW entry \in Entry, NEW isd, NEW object
    PROVE  Visited(result, entry, isd, object) \in Result
<1>1. IsList(entry.targets) /\ entry.privilege_level \in Privileges
  BY EntryIsTyped
<1>2. TargetOutcome(entry, object) \in Outcome
  BY <1>1, OutcomeTells
<1>3. Implied[entry.privilege_level] \subseteq Privileges
  BY <1>1, PrivilegesAre
<1>4. After(result, entry, object) \in Result
  BY <1>2, <1>3 DEF After, Result, Outcome
<1> QED
  BY <1>4 DEF Visited

(* The evaluation is the last of the results that one entry after the other     *)
(* gives.                                                                       *)
LEMMA GrantingSteps ==
    ASSUME NEW list \in Seq(Entry), NEW isd, NEW object
    PROVE  \E f \in [0 .. Len(list) -> Result] :
              /\ f[0] = Fresh(isd)
              /\ f[Len(list)] = GetGrantedPrivileges(list, isd, object)
              /\ \A i \in 1 .. Len(list) : f[i] = Visited(f[i - 1], list[i], isd, object)
<1> DEFINE n == Len(list)
           step == [i \in 1 .. n |-> [r \in Result |-> Visited(r, list[i], isd, object)]]
           Rule(f) == f = [i \in 0 .. n |->
                             IF i > 0 THEN Visited(f[i - 1], list[i], isd, object)
                             ELSE [granted |-> IF /\ isd.authentication_mode = "PASE"
                                                  /\ isd.is_commissioning
                                               THEN Privileges ELSE {},
                                   failed |-> None]]
<1>1. n \in Nat /\ \A i \in 1 .. n : list[i] \in Entry
  OBVIOUS
<1>2. step \in Steps(Result, n)
  BY <1>1, VisitedIsResult DEF Steps
<1>3. \A i \in 1 .. n, r \in Result : step[i][r] = Visited(r, list[i], isd, object)
  OBVIOUS
<1>4. /\ Fresh(isd) \in Result
      /\ Fresh(isd) = [granted |-> IF /\ isd.authentication_mode = "PASE"
                                      /\ isd.is_commissioning
                                   THEN Privileges ELSE {},
                       failed |-> None]
  BY DEF Fresh, Result, Commissioner
<1> HIDE DEF step, n
<1>5. PICK g \in [0 .. n -> Result] :
             g[0] = Fresh(isd) /\ \A i \in 1 .. n : g[i] = step[i][g[i - 1]]
  <2>1. \E g : g \in Iterations(Result, Fresh(isd), n, step)
    BY <1>1, <1>2, <1>4, IterationExists
  <2> QED
    BY <2>1 DEF Iterations
<1>6. Rule(g)
  BY <1>1, <1>3, <1>4, <1>5
<1> DEFINE result == CHOOSE f : Rule(f)
<1>7. Rule(result)
  BY <1>6
<1>8. GetGrantedPrivileges(list, isd, object) = result[n]
  BY DEF GetGrantedPrivileges, n
<1> HIDE DEF result
<1>9. result[0] = Fresh(isd)
  BY <1>1, <1>4, <1>7
<1>10. \A i \in 1 .. n : result[i] = Visited(result[i - 1], list[i], isd, object)
  <2> TAKE i \in 1 .. n
  <2>1. i \in 0 .. n /\ i > 0
    BY <1>1
  <2> QED
    BY <1>7, <2>1, Zenon
<1>11. result \in [0 .. n -> Result]
  <2> DEFINE T == {i \in 0 .. n : result[i] \in Result}
  <2>1. 0 \in T
    BY <1>1, <1>4, <1>9
  <2>2. \A i \in 0 .. n - 1 : i \in T => i + 1 \in T
    BY <1>1, <1>10, VisitedIsResult
  <2> HIDE DEF T
  <2>3. \A i \in 0 .. n : i \in T
    BY <1>1, <2>1, <2>2, Upwards
  <2> QED
    BY <1>7, <2>3 DEF T
<1> QED
  BY <1>8, <1>9, <1>10, <1>11 DEF n

(* One entry of an evaluation that has not failed.                              *)
LEMMA VisitedEarns ==
    ASSUME NEW list \in Seq(Entry), NEW isd, NEW object, NEW n \in 0 .. Len(list) - 1,
           NEW result \in Result, result.failed = None,
           result.granted = Earned(list, isd, object, n),
           Visited(result, list[n + 1], isd, object).failed = None
    PROVE  Visited(result, list[n + 1], isd, object).granted =
              Earned(list, isd, object, n + 1)
<1> DEFINE e == list[n + 1]
           outcome == TargetOutcome(e, object)
<1>1. e \in Entry /\ n + 1 \in 0 .. Len(list) /\ n \in 0 .. Len(list)
  OBVIOUS
<1>2. IsList(e.targets)
  BY <1>1, EntryIsTyped
<1>3. CASE "Administer" \in result.granted
  <2>1. Earned(list, isd, object, n) \subseteq Earned(list, isd, object, n + 1)
    BY EarnedGrows
  <2>2. Earned(list, isd, object, n + 1) = Earned(list, isd, object, n)
    BY <1>1, <1>3, <2>1, EarnedBounds
  <2> QED
    BY <1>3, <2>2 DEF Visited
<1>4. CASE ~EntryApplies(e, isd)
  BY <1>4, EarnedGrows DEF Visited, Counts
<1>5. CASE "Administer" \notin result.granted /\ EntryApplies(e, isd)
  <2>1. Visited(result, e, isd, object) = After(result, e, object)
    BY <1>5 DEF Visited
  <2>2. outcome \in {"match", "no match"}
    <3>1. outcome \in Outcome
      BY <1>2, OutcomeTells
    <3>2. ASSUME outcome \in {"empty target", "ambiguous target"} PROVE FALSE
      <4>1. After(result, e, object).failed = outcome
        BY <3>2 DEF After, Result
      <4>2. outcome # None
        BY <3>2, NoneAssumption
      <4> QED
        BY <2>1, <4>1, <4>2
    <3> QED
      BY <3>1, <3>2 DEF Outcome
  <2>3. CASE outcome = "match"
    <3>1. Counts(e, isd, object)
      BY <1>2, <1>5, <2>3, OutcomeTells DEF Counts
    <3>2. After(result, e, object).granted =
             result.granted \cup Implied[e.privilege_level]
      BY <2>3 DEF After, Result
    <3> QED
      BY <2>1, <3>1, <3>2, EarnedGrows
  <2>4. CASE outcome = "no match"
    <3>1. ~Counts(e, isd, object)
      BY <1>2, <2>4, OutcomeTells DEF Counts
    <3>2. After(result, e, object) = result
      BY <2>4 DEF After
    <3> QED
      BY <2>1, <3>1, <3>2, EarnedGrows
  <2> QED
    BY <2>2, <2>3, <2>4
<1> QED
  BY <1>3, <1>4, <1>5

(* An evaluation that does not fail grants what is deserved: for every list of   *)
(* entries, session and object.                                                 *)
LEMMA GrantedIsDeserved ==
    ASSUME NEW list \in Seq(Entry), NEW isd, NEW object
    PROVE  /\ GetGrantedPrivileges(list, isd, object) \in Result
           /\ GetGrantedPrivileges(list, isd, object).failed = None =>
                 GetGrantedPrivileges(list, isd, object).granted =
                    Deserved(list, isd, object)
<1>1. PICK f \in [0 .. Len(list) -> Result] :
              /\ f[0] = Fresh(isd)
              /\ f[Len(list)] = GetGrantedPrivileges(list, isd, object)
              /\ \A i \in 1 .. Len(list) : f[i] = Visited(f[i - 1], list[i], isd, object)
  BY GrantingSteps
<1> DEFINE n == Len(list)
           T == {i \in 0 .. n :
                   f[i].failed = None => f[i].granted = Earned(list, isd, object, i)}
<1>2. n \in Nat
  OBVIOUS
<1>3. 0 \in T
  <2>1. Earned(list, isd, object, 0) = Commissioner(isd)
    BY DEF Earned
  <2> QED
    BY <1>1, <1>2, <2>1 DEF Fresh
<1>4. ASSUME NEW i \in 0 .. n - 1, i \in T PROVE i + 1 \in T
  <2>1. i + 1 \in 0 .. n /\ f[i] \in Result
        /\ f[i + 1] = Visited(f[i], list[i + 1], isd, object)
    BY <1>1, <1>2
  <2>2. CASE f[i].failed # None
    BY <2>1, <2>2 DEF Visited
  <2>3. CASE f[i].failed = None
    BY <1>4, <2>1, <2>3, VisitedEarns
  <2> QED
    BY <2>2, <2>3
<1> HIDE DEF T
<1>5. \A i \in 0 .. n : i \in T
  BY <1>2, <1>3, <1>4, Upwards
<1>6. n \in T /\ f[n] \in Result
  BY <1>1, <1>2, <1>5
<1> QED
  BY <1>1, <1>6, DeservedIsEarned DEF T

(* Over usable targets no evaluation fails.                                     *)
LEMMA UsableNeverFails ==
    ASSUME NEW list \in Seq(Entry), \A e \in ToSet(list) : ~Unusable(e),
           NEW isd, NEW object
    PROVE  GetGrantedPrivileges(list, isd, object).failed = None
<1>1. PICK f \in [0 .. Len(list) -> Result] :
              /\ f[0] = Fresh(isd)
              /\ f[Len(list)] = GetGrantedPrivileges(list, isd, object)
              /\ \A i \in 1 .. Len(list) : f[i] = Visited(f[i - 1], list[i], isd, object)
  BY GrantingSteps
<1> DEFINE n == Len(list)
           T == {i \in 0 .. n : f[i].failed = None}
<1>2. n \in Nat /\ DOMAIN list = 1 .. n
  OBVIOUS
<1>3. 0 \in T
  BY <1>1, <1>2 DEF Fresh
<1>4. ASSUME NEW i \in 0 .. n - 1, i \in T PROVE i + 1 \in T
  <2>1. i + 1 \in 1 .. n /\ f[i] \in Result /\ list[i + 1] \in Entry
        /\ f[i + 1] = Visited(f[i], list[i + 1], isd, object)
    BY <1>1, <1>2
  <2>2. ~Unusable(list[i + 1]) /\ IsList(list[i + 1].targets)
    BY <1>2, <2>1, EntryIsTyped DEF ToSet
  <2>3. TargetOutcome(list[i + 1], object) \in {"match", "no match"}
    BY <2>2, OutcomeTells
  <2>4. After(f[i], list[i + 1], object).failed = None
    BY <1>4, <2>1, <2>3 DEF After, Result
  <2> QED
    BY <1>4, <2>1, <2>4 DEF Visited
<1> HIDE DEF T
<1>5. \A i \in 0 .. n : i \in T
  BY <1>2, <1>3, <1>4, Upwards
<1>6. n \in T
  BY <1>2, <1>5
<1> QED
  BY <1>1, <1>6 DEF T
-----------------------------------------------------------------------------
(* A request being served, with entries of E in its list and data of F in its    *)
(* calls; the calls are deserved.                                               *)
Answer == {"SUCCESS", "UNSUPPORTED_ACCESS", "UNSUPPORTED_NODE", "UNSUPPORTED_ENDPOINT",
           "UNSUPPORTED_CLUSTER", "INVALID_ACTION", "UNSUPPORTED_ATTRIBUTE",
           "UNSUPPORTED_WRITE", "NEEDS_TIMED_INTERACTION", "UNSUPPORTED_COMMAND",
           "CONSTRAINT_ERROR", "status", "data", "pair", "no handler"}
Call(F) == [object : Object, needs : SUBSET Privileges, timed : BOOLEAN,
            fields : F, list : Seq(Entry)]
Machine(E, F) ==
    [acl : Seq(E), fabrics : SUBSET FabricIndex, calls : Seq(Call(F)),
     answers : Seq(Answer), silent : BOOLEAN]

Due(call, isd, timed) ==
    /\ call.needs \subseteq Deserved(call.list, isd, call.object)
    /\ call.timed => timed
Good(E, F, isd, timed) ==
    {m \in Machine(E, F) : \A k \in 1 .. Len(m.calls) : Due(m.calls[k], isd, timed)}

(* the list a request may make of a list over E                                 *)
Admits(E) == E \subseteq Entry /\ \A i \in FabricIndex : Administrator(i) \in E
Known(struct) ==
    struct.privilege \in Privileges /\ struct.auth_mode \in AuthenticationModes
Writes(E, data, i) ==
    data \notin Undecodable =>
       /\ IsList(data)
       /\ \A struct \in ToSet(data) : Known(struct) => Stored(struct, i) \in E

LEMMA WiderList ==
    ASSUME NEW E, E \subseteq Entry, NEW list \in Seq(E)
    PROVE  list \in Seq(Entry)
OBVIOUS

(* Without keeps the order of what it keeps, and adds nothing.                  *)
LEMMA WithoutKeeps ==
    ASSUME NEW E, NEW list \in Seq(E), NEW i
    PROVE  Without(list, i) \in Seq(E)
<1> DEFINE n == Len(list)
           keep == [k \in 1 .. n |-> [s \in Seq(E) |->
                      IF list[k].fabric_index = i THEN s ELSE Append(s, list[k])]]
           Rule(f) == f = [k \in 0 .. n |->
                             IF k = 0 THEN <<>>
                             ELSE IF list[k].fabric_index = i THEN f[k - 1]
                             ELSE Append(f[k - 1], list[k])]
<1>1. n \in Nat /\ \A k \in 1 .. n : list[k] \in E
  OBVIOUS
<1>2. keep \in Steps(Seq(E), n)
  BY <1>1 DEF Steps
<1>3. \A k \in 1 .. n, s \in Seq(E) :
         keep[k][s] = IF list[k].fabric_index = i THEN s ELSE Append(s, list[k])
  OBVIOUS
<1>4. <<>> \in Seq(E)
  OBVIOUS
<1> HIDE DEF keep, n
<1>5. PICK g \in [0 .. n -> Seq(E)] :
             g[0] = <<>> /\ \A k \in 1 .. n : g[k] = keep[k][g[k - 1]]
  <2>1. \E g : g \in Iterations(Seq(E), <<>>, n, keep)
    BY <1>1, <1>2, <1>4, IterationExists
  <2> QED
    BY <2>1 DEF Iterations
<1>6. Rule(g)
  <2>1. ASSUME NEW k \in 1 .. n
        PROVE  g[k] = IF list[k].fabric_index = i THEN g[k - 1]
                      ELSE Append(g[k - 1], list[k])
    <3>1. k - 1 \in 0 .. n /\ g[k - 1] \in Seq(E)
      BY <1>1, <1>5
    <3> QED
      BY <1>3, <1>5, <3>1
  <2>2. ASSUME NEW k \in 0 .. n
        PROVE  g[k] = IF k = 0 THEN <<>>
                      ELSE IF list[k].fabric_index = i THEN g[k - 1]
                      ELSE Append(g[k - 1], list[k])
    <3>1. k = 0 \/ k \in 1 .. n
      BY <1>1
    <3> QED
      BY <1>5, <2>1, <3>1, Zenon
  <2> QED
    BY <1>5, <2>2, Zenon
<1> DEFINE kept == CHOOSE f : Rule(f)
<1>7. Rule(kept)
  BY <1>6
<1>8. Without(list, i) = kept[n]
  BY DEF Without, n
<1> HIDE DEF kept
<1> DEFINE T == {k \in 0 .. n : kept[k] \in Seq(E)}
<1>9. 0 \in T
  BY <1>1, <1>7
<1>10. ASSUME NEW k \in 0 .. n - 1, k \in T PROVE k + 1 \in T
  <2>1. k + 1 \in 0 .. n /\ k + 1 # 0 /\ list[k + 1] \in E /\ (k + 1) - 1 = k
    BY <1>1
  <2>2. kept[k + 1] = IF list[k + 1].fabric_index = i THEN kept[(k + 1) - 1]
                      ELSE Append(kept[(k + 1) - 1], list[k + 1])
    BY <1>7, <2>1, Zenon
  <2>3. kept[k] \in Seq(E)
    BY <1>10
  <2>4. kept[k + 1] \in Seq(E)
    BY <2>1, <2>2, <2>3
  <2> QED
    BY <2>1, <2>4
<1> HIDE DEF T
<1>11. \A k \in 0 .. n : k \in T
  BY <1>1, <1>9, <1>10, Upwards
<1> QED
  BY <1>1, <1>8, <1>11 DEF T

LEMMA ReplacedKeeps ==
    ASSUME NEW E, NEW list \in Seq(E), NEW i, NEW data, IsList(data),
           \A struct \in ToSet(data) : Stored(struct, i) \in E
    PROVE  Replaced(list, i, data) \in Seq(E)
<1> DEFINE added == [n \in DOMAIN data |-> Stored(data[n], i)]
<1>1. PICK n \in Nat : DOMAIN data = 1 .. n
  BY DEF IsList
<1>2. added \in [1 .. n -> E]
  BY <1>1 DEF ToSet
<1>3. added \in Seq(E)
  BY <1>2
<1>4. Without(list, i) \in Seq(E)
  BY WithoutKeeps
<1> HIDE DEF added
<1>5. Without(list, i) \o added \in Seq(E)
  BY <1>3, <1>4
<1> QED
  BY <1>5 DEF Replaced, added

LEMMA AnsweredKeeps ==
    ASSUME NEW E, NEW F, NEW isd, NEW timed, NEW m \in Good(E, F, isd, timed),
           NEW status \in Answer
    PROVE  /\ Answered(m, status) \in Good(E, F, isd, timed)
           /\ Answered(m, status).silent = m.silent
           /\ Len(Answered(m, status).answers) = Len(m.answers) + 1
<1>1. Append(m.answers, status) \in Seq(Answer)
      /\ Len(Append(m.answers, status)) = Len(m.answers) + 1
  BY DEF Good, Machine
<1> QED
  BY <1>1 DEF Good, Machine, Answered

LEMMA SilentKeeps ==
    ASSUME NEW E, NEW F, NEW isd, NEW timed, NEW m \in Good(E, F, isd, timed)
    PROVE  Silent(m) \in Good(E, F, isd, timed)
BY DEF Good, Machine, Silent

(* (the answers of another state, the rest as it was)                            *)
WithAnswers(m, answers) == [m EXCEPT !.answers = answers]

LEMMA AnswersKeep ==
    ASSUME NEW E, NEW F, NEW isd, NEW timed, NEW m \in Good(E, F, isd, timed),
           NEW answers \in Seq(Answer)
    PROVE  WithAnswers(m, answers) \in Good(E, F, isd, timed)
BY DEF Good, Machine, WithAnswers

LEMMA CalledKeeps ==
    ASSUME NEW E, E \subseteq Entry, NEW F, NEW isd, NEW timed,
           NEW m \in Good(E, F, isd, timed),
           NEW object \in Object, NEW needs \in SUBSET Privileges, NEW t \in BOOLEAN,
           NEW fields \in F,
           needs \subseteq Deserved(m.acl, isd, object), t => timed
    PROVE  /\ Called(m, object, needs, t, fields) \in Good(E, F, isd, timed)
           /\ Called(m, object, needs, t, fields).acl = m.acl
           /\ Called(m, object, needs, t, fields).silent = m.silent
           /\ Called(m, object, needs, t, fields).answers = m.answers
<1> DEFINE call == [object |-> object, needs |-> needs, timed |-> t,
                    fields |-> fields, list |-> m.acl]
           calls == Append(m.calls, call)
<1>1. m \in Machine(E, F) /\ \A k \in 1 .. Len(m.calls) : Due(m.calls[k], isd, timed)
  BY DEF Good
<1>2. m.acl \in Seq(Entry) /\ m.calls \in Seq(Call(F))
  BY <1>1, WiderList DEF Machine
<1>3. call \in Call(F) /\ Due(call, isd, timed)
  BY <1>2 DEF Call, Due
<1> HIDE DEF call
<1>4. calls \in Seq(Call(F))
  BY <1>2, <1>3
<1>5. \A k \in 1 .. Len(calls) : Due(calls[k], isd, timed)
  BY <1>1, <1>2, <1>3
<1>6. Called(m, object, needs, t, fields) = [m EXCEPT !.calls = calls]
  BY DEF Called, call
<1> HIDE DEF calls
<1>7. [m EXCEPT !.calls = calls] \in Machine(E, F)
  BY <1>1, <1>4 DEF Machine
<1>8. [m EXCEPT !.calls = calls].calls = calls
  BY <1>1 DEF Machine
<1>9. [m EXCEPT !.calls = calls] \in Good(E, F, isd, timed)
  BY <1>5, <1>7, <1>8 DEF Good
<1> QED
  BY <1>1, <1>6, <1>9 DEF Machine

(* The list changed, the rest as it was.                                        *)
LEMMA ListKeeps ==
    ASSUME NEW E, NEW F, NEW isd, NEW timed, NEW m \in Good(E, F, isd, timed),
           NEW list \in Seq(E)
    PROVE  /\ [m EXCEPT !.acl = list] \in Good(E, F, isd, timed)
           /\ [m EXCEPT !.acl = list].silent = m.silent
           /\ [m EXCEPT !.acl = list].answers = m.answers
BY DEF Good, Machine

-----------------------------------------------------------------------------
(* A path that is located names an object.                                 *)
LEMMA LocatedObject ==
    ASSUME NEW e, NEW c, Located(<<e, c>>) = "SUCCESS"
    PROVE  /\ e \in Endpoint /\ c \in Servers[e] /\ <<e, c>> \in Object
           /\ c \in DOMAIN Attributes /\ c \in DOMAIN Commands /\ c \in DOMAIN Events
<1>1. e \in Endpoint /\ c \in Servers[e]
  <2>1. <<e, c>>[1] = e /\ <<e, c>>[2] = c
    OBVIOUS
  <2> QED
    BY <2>1 DEF Located
<1>2. <<e, c>> \in {<<e, d>> : d \in Servers[e]}
  BY <1>1
<1>4. <<e, c>> \in Object
  BY <1>1, <1>2 DEF Object
<1>3. Servers[e] \subseteq DOMAIN Attributes \cap DOMAIN Commands \cap DOMAIN Events
  BY <1>1, DispatchAssumption DEF Endpoint
<1> QED
  BY <1>1, <1>3, <1>4

LEMMA WriteStatusTells ==
    ASSUME NEW granted, NEW path, NEW timed
    PROVE  /\ WriteStatus(granted, path, timed) \in Answer
           /\ WriteStatus(granted, path, timed) = "SUCCESS" =>
                 /\ Located(<<path.endpoint, path.cluster>>) = "SUCCESS"
                 /\ path.attribute \in DOMAIN Attributes[path.cluster]
                 /\ {"View", Attributes[path.cluster][path.attribute].write}
                       \subseteq granted
                 /\ Attributes[path.cluster][path.attribute].timed => timed
BY DEF WriteStatus, Located, Answer

(* The writer of the access control list: it replaces the entries of the   *)
(* fabric, or refuses.                                                     *)
LEMMA WriteAclKeeps ==
    ASSUME NEW E, Admits(E), NEW F, NEW isd, NEW timed,
           NEW m \in Good(E, F, isd, timed), NEW data, data \notin Undecodable,
           Writes(E, data, isd.fabric_index)
    PROVE  /\ WriteAcl(m, isd, data) \in Good(E, F, isd, timed)
           /\ WriteAcl(m, isd, data).silent = m.silent
           /\ Len(WriteAcl(m, isd, data).answers) = Len(m.answers) + 1
<1>1. CASE ~Admissible(data)
  <2>1. "CONSTRAINT_ERROR" \in Answer
    BY DEF Answer
  <2> QED
    BY <1>1, <2>1, AnsweredKeeps DEF WriteAcl
<1>2. CASE Admissible(data)
  <2> DEFINE list == Replaced(m.acl, isd.fabric_index, data)
             after == [m EXCEPT !.acl = list]
  <2>1. m.acl \in Seq(E)
    BY DEF Good, Machine
  <2>2. list \in Seq(E)
    BY <1>2, <2>1, ReplacedKeeps DEF Writes, Admissible, Known
  <2>3. WriteAcl(m, isd, data) = Answered(after, "SUCCESS")
    BY <1>2 DEF WriteAcl
  <2> HIDE DEF list
  <2>4. /\ after \in Good(E, F, isd, timed)
        /\ after.silent = m.silent /\ after.answers = m.answers
    BY <2>1, <2>2, ListKeeps
  <2> HIDE DEF after
  <2>5. "SUCCESS" \in Answer
    BY DEF Answer
  <2> QED
    BY <2>3, <2>4, <2>5, AnsweredKeeps
<1> QED
  BY <1>1, <1>2

LEMMA RunWriterKeeps ==
    ASSUME NEW E, Admits(E), NEW F, NEW isd, NEW timed,
           NEW m \in Good(E, F, isd, timed), NEW path, path.data \notin Undecodable,
           Writes(E, path.data, isd.fabric_index)
    PROVE  /\ RunWriter(m, isd, path) \in Good(E, F, isd, timed)
           /\ /\ Attributes[path.cluster][path.attribute].returns # "nothing"
              /\ path.ends[path.endpoint] = "returns"
              => /\ RunWriter(m, isd, path).silent = m.silent
                 /\ Len(RunWriter(m, isd, path).answers) = Len(m.answers) + 1
<1> DEFINE returns == Attributes[path.cluster][path.attribute].returns
           ending == path.ends[path.endpoint]
           after == IF path.attribute = "acl" THEN WriteAcl(m, isd, path.data)
                    ELSE Answered(m, "SUCCESS")
<1>1. RunWriter(m, isd, path) =
         IF ending = "raises before" THEN Silent(m)
         ELSE IF ending = "raises after" \/ returns = "nothing"
              THEN Silent(WithAnswers(after, m.answers))
         ELSE after
  BY DEF RunWriter, WithAnswers
<1>2. /\ after \in Good(E, F, isd, timed)
      /\ after.silent = m.silent
      /\ Len(after.answers) = Len(m.answers) + 1
  <2>1. CASE path.attribute = "acl"
    BY <2>1, WriteAclKeeps
  <2>2. CASE path.attribute # "acl"
    <3>1. "SUCCESS" \in Answer
      BY DEF Answer
    <3> QED
      BY <2>2, <3>1, AnsweredKeeps
  <2> QED
    BY <2>1, <2>2
<1> HIDE DEF returns, ending, after
<1>3. CASE ending = "raises before"
  <2>1. RunWriter(m, isd, path) = Silent(m)
    BY <1>1, <1>3
  <2> QED
    BY <1>3, <2>1, SilentKeeps DEF ending
<1>4. CASE /\ ending # "raises before"
           /\ ending = "raises after" \/ returns = "nothing"
  <2>1. RunWriter(m, isd, path) = Silent(WithAnswers(after, m.answers))
    BY <1>1, <1>4
  <2>2. m.answers \in Seq(Answer)
    BY DEF Good, Machine
  <2>3. WithAnswers(after, m.answers) \in Good(E, F, isd, timed)
    BY <1>2, <2>2, AnswersKeep
  <2> QED
    BY <1>4, <2>1, <2>3, SilentKeeps DEF ending, returns
<1>5. CASE /\ ending # "raises before"
           /\ ~(ending = "raises after" \/ returns = "nothing")
  <2>1. RunWriter(m, isd, path) = after
    BY <1>1, <1>5
  <2> QED
    BY <1>2, <2>1
<1> QED
  BY <1>3, <1>4, <1>5

(* One item of a write: it calls a writer only for who deserves it, and is        *)
(* answered unless the writer raises.                                           *)
LEMMA WriteKeeps ==
    ASSUME NEW E, Admits(E), NEW F, NEW isd, NEW timed \in BOOLEAN,
           NEW m \in Good(E, F, isd, timed), NEW path, path.data \in F,
           Writes(E, path.data, isd.fabric_index)
    PROVE  /\ WriteAttribute(m, isd, path, timed) \in Good(E, F, isd, timed)
           /\ /\ ~m.silent
              /\ \A entry \in E : ~Unusable(entry)
              /\ ~WriterRaises(path)
              => /\ ~WriteAttribute(m, isd, path, timed).silent
                 /\ Len(WriteAttribute(m, isd, path, timed).answers) =
                       Len(m.answers) + 1
<1> DEFINE object == <<path.endpoint, path.cluster>>
           result == Granted(m.acl, isd, object)
           status == WriteStatus(result.granted, path, timed)
           attribute == Attributes[path.cluster][path.attribute]
           needs == {"View", attribute.write}
           called == Called(m, object, needs, attribute.timed, path.data)
<1>1. WriteAttribute(m, isd, path, timed) =
         IF m.silent THEN m
         ELSE IF result.failed # None THEN Silent(m)
         ELSE IF status # "SUCCESS" THEN Answered(m, status)
         ELSE IF path.data = Malformed THEN Answered(m, "INVALID_ACTION")
         ELSE IF path.data = Broken THEN Silent(m)
         ELSE RunWriter(called, isd, path)
  BY DEF WriteAttribute
<1>2. m \in Machine(E, F) /\ E \subseteq Entry
  BY DEF Good, Admits
<1>3. m.acl \in Seq(E) /\ m.acl \in Seq(Entry) /\ m.silent \in BOOLEAN
  BY <1>2, WiderList DEF Machine
<1>4. /\ result \in Result
      /\ result.failed = None => result.granted = Deserved(m.acl, isd, object)
  BY <1>3, GrantedIsDeserved DEF Granted
<1>5. (\A entry \in E : ~Unusable(entry)) => result.failed = None
  <2>1. \A e \in ToSet(m.acl) : e \in E
    BY <1>3 DEF ToSet
  <2> QED
    BY <1>3, <2>1, UsableNeverFails DEF Granted
<1>6. /\ status \in Answer
      /\ status = "SUCCESS" =>
            /\ Located(object) = "SUCCESS"
            /\ path.attribute \in DOMAIN Attributes[path.cluster]
            /\ needs \subseteq result.granted
            /\ attribute.timed => timed
  BY WriteStatusTells
<1> HIDE DEF result, status
<1>7. CASE m.silent
  BY <1>1, <1>7
<1>8. CASE ~m.silent /\ result.failed # None
  BY <1>1, <1>5, <1>8, SilentKeeps
<1>9. CASE ~m.silent /\ result.failed = None /\ status # "SUCCESS"
  <2>1. WriteAttribute(m, isd, path, timed) = Answered(m, status)
    BY <1>1, <1>9
  <2> QED
    BY <1>6, <1>9, <2>1, AnsweredKeeps
<1>10. CASE /\ ~m.silent /\ result.failed = None /\ status = "SUCCESS"
            /\ path.data = Malformed
  <2>1. WriteAttribute(m, isd, path, timed) = Answered(m, "INVALID_ACTION")
    BY <1>1, <1>10
  <2>2. "INVALID_ACTION" \in Answer
    BY DEF Answer
  <2> QED
    BY <1>10, <2>1, <2>2, AnsweredKeeps
<1>12. CASE /\ ~m.silent /\ result.failed = None /\ status = "SUCCESS"
            /\ path.data # Malformed /\ path.data = Broken
  <2>1. WriteAttribute(m, isd, path, timed) = Silent(m)
    BY <1>1, <1>12
  <2> QED
    BY <1>12, <2>1, SilentKeeps DEF WriterRaises
<1>11. CASE /\ ~m.silent /\ result.failed = None /\ status = "SUCCESS"
            /\ path.data \notin Undecodable
  <2>1. object \in Object /\ path.cluster \in DOMAIN Attributes
        /\ attribute.timed \in BOOLEAN
    BY <1>6, <1>11, LocatedObject, DispatchAssumption
  <2>2. needs \subseteq Deserved(m.acl, isd, object) /\ needs \in SUBSET Privileges
    BY <1>4, <1>6, <1>11 DEF Result
  <2> HIDE DEF needs, object, attribute
  <2>3. /\ called \in Good(E, F, isd, timed)
        /\ called.silent = m.silent /\ called.answers = m.answers
    BY <1>2, <1>6, <1>11, <2>1, <2>2, CalledKeeps
  <2> HIDE DEF called
  <2>4. WriteAttribute(m, isd, path, timed) = RunWriter(called, isd, path)
    BY <1>1, <1>11 DEF Undecodable
  <2>5. /\ RunWriter(called, isd, path) \in Good(E, F, isd, timed)
        /\ attribute.returns # "nothing" /\ path.ends[path.endpoint] = "returns" =>
                 /\ RunWriter(called, isd, path).silent = called.silent
                 /\ Len(RunWriter(called, isd, path).answers) = Len(called.answers) + 1
    BY <1>11, <2>3, RunWriterKeeps DEF attribute
  <2>6. ~WriterRaises(path) =>
           attribute.returns # "nothing" /\ path.ends[path.endpoint] = "returns"
    <3>1. path.endpoint \in Endpoint
      BY <1>6, <1>11, LocatedObject DEF object
    <3> QED
      BY <1>6, <1>11, <2>1, <3>1 DEF WriterRaises, attribute
  <2> QED
    BY <1>11, <2>3, <2>4, <2>5, <2>6
<1> QED
  BY <1>3, <1>7, <1>8, <1>9, <1>10, <1>11, <1>12 DEF Undecodable
-----------------------------------------------------------------------------
(* The items of a write, one after the other.                                   *)
Serves(E) == acl \in Seq(E) /\ fabrics \in SUBSET FabricIndex

LEMMA ServingIsGood ==
    ASSUME NEW E, Serves(E), NEW F, NEW isd, NEW timed
    PROVE  /\ Serving \in Good(E, F, isd, timed)
           /\ ~Serving.silent /\ Len(Serving.answers) = 0
<1>1. <<>> \in Seq(Call(F)) /\ <<>> \in Seq(Answer) /\ Len(<<>>) = 0
  OBVIOUS
<1> QED
  BY <1>1 DEF Serves, Serving, Good, Machine

LEMMA WrittenPaths ==
    ASSUME NEW request \in Request, request.kind = "write"
    PROVE  LET paths == DecompressedPaths(request.items)
           IN  /\ Len(request.items) \in Nat
               /\ Len(paths) = Len(request.items)
               /\ DOMAIN paths = 1 .. Len(request.items)
               /\ \A n \in 1 .. Len(request.items) :
                     /\ request.items[n] \in ToSet(request.items)
                     /\ paths[n].data = request.items[n].data
<1> DEFINE items == request.items
           paths == DecompressedPaths(items)
<1>1. /\ items \in Seq(ToSet(items))
      /\ \A item \in ToSet(items) : "data" \in DOMAIN item
  BY RequestAssumption DEF IsList
<1>2. DOMAIN items = 1 .. Len(items) /\ Len(items) \in Nat
  BY <1>1
<1>3. \A n \in 1 .. Len(items) : items[n] \in ToSet(items)
  BY <1>2 DEF ToSet
<1>4. /\ paths = [n \in DOMAIN items |-> paths[n]]
      /\ \A n \in DOMAIN items :
            "data" \in DOMAIN items[n] => paths[n]["data"] = items[n]["data"]
  BY DEF DecompressedPaths
<1>5. \A n \in 1 .. Len(items) : paths[n].data = items[n].data
  BY <1>1, <1>2, <1>3, <1>4
<1> HIDE DEF paths
<1>6. DOMAIN paths = 1 .. Len(items) /\ Len(paths) = Len(items)
  <2>1. paths \in [1 .. Len(items) -> ToSet(paths)]
    BY <1>2, <1>4 DEF ToSet
  <2>2. paths \in Seq(ToSet(paths))
    BY <1>2, <2>1
  <2> QED
    BY <1>2, <2>1, <2>2
<1> QED
  BY <1>2, <1>3, <1>5, <1>6 DEF paths

(* the paths of a request carry data out of F, and write entries out of E        *)
Carries(request, paths, E, F, isd) ==
    /\ paths = DecompressedPaths(request.items) /\ Len(paths) \in Nat
    /\ \A k \in 1 .. Len(paths) :
          paths[k].data \in F /\ Writes(E, paths[k].data, isd.fabric_index)

(* All the items of a write: one answer each, unless a writer raised.       *)
LEMMA WriteItemsKeep ==
    ASSUME NEW E, Admits(E), Serves(E), NEW F, NEW isd, NEW request,
           request.timed \in BOOLEAN,
           NEW paths, Carries(request, paths, E, F, isd)
    PROVE  /\ WriteItems(isd, request) \in Good(E, F, isd, request.timed)
           /\ /\ ~request.chunked
              /\ \A entry \in E : ~Unusable(entry)
              /\ \A k \in 1 .. Len(paths) : ~WriterRaises(paths[k])
              => /\ ~WriteItems(isd, request).silent
                 /\ Len(WriteItems(isd, request).answers) = Len(paths)
<1>0. PICK n \in Nat : n = Len(paths)
  BY DEF Carries
<1> DEFINE timed == request.timed
           A == Good(E, F, isd, timed)
           step == [k \in 1 .. n |-> [m \in A |-> WriteAttribute(m, isd, paths[k], timed)]]
           Rule(f) == f = [k \in 0 .. Len(paths) |->
                             IF k = 0 THEN Serving
                             ELSE WriteAttribute(f[k - 1], isd, paths[k], request.timed)]
<1>1. Serving \in A /\ ~Serving.silent /\ Len(Serving.answers) = 0
  BY ServingIsGood
<1>2. \A k \in 1 .. n, m \in A : WriteAttribute(m, isd, paths[k], timed) \in A
  BY <1>0, WriteKeeps DEF Carries
<1>3. step \in Steps(A, n)
  BY <1>2 DEF Steps
<1>4. \A k \in 1 .. n, m \in A : step[k][m] = WriteAttribute(m, isd, paths[k], timed)
  OBVIOUS
<1>5. WriteItems(isd, request) =
         IF request.chunked THEN Silent(Serving) ELSE (CHOOSE f : Rule(f))[Len(paths)]
  BY DEF WriteItems, Carries
<1> HIDE DEF step, A
<1>6. PICK g \in [0 .. n -> A] :
             g[0] = Serving /\ \A k \in 1 .. n : g[k] = step[k][g[k - 1]]
  <2>1. \E g : g \in Iterations(A, Serving, n, step)
    BY <1>1, <1>3, IterationExists
  <2> QED
    BY <2>1 DEF Iterations
<1>7. Rule(g)
  <2>1. ASSUME NEW k \in 1 .. n PROVE g[k] = WriteAttribute(g[k - 1], isd, paths[k], timed)
    <3>1. k - 1 \in 0 .. n
      OBVIOUS
    <3> QED
      BY <1>4, <1>6, <3>1
  <2>2. ASSUME NEW k \in 0 .. n
        PROVE  g[k] = IF k = 0 THEN Serving
                      ELSE WriteAttribute(g[k - 1], isd, paths[k], timed)
    <3>1. k = 0 \/ k \in 1 .. n
      OBVIOUS
    <3> QED
      BY <1>6, <2>1, <3>1, Zenon
  <2> QED
    BY <1>0, <1>6, <2>2, Zenon
<1> DEFINE m == CHOOSE f : Rule(f)
<1>8. Rule(m)
  BY <1>7
<1> HIDE DEF m
<1>9. m[0] = Serving
  BY <1>0, <1>8
<1>10. ASSUME NEW k \in 0 .. n - 1
       PROVE  /\ k + 1 \in 0 .. n /\ k + 1 \in 1 .. n
              /\ m[k + 1] = WriteAttribute(m[k], isd, paths[k + 1], timed)
  <2>1. k + 1 \in 0 .. n /\ k + 1 \in 1 .. n /\ k + 1 # 0 /\ (k + 1) - 1 = k
    OBVIOUS
  <2>2. m[k + 1] = WriteAttribute(m[(k + 1) - 1], isd, paths[k + 1], timed)
    BY <1>0, <1>8, <2>1, Zenon
  <2> QED
    BY <2>1, <2>2
<1> DEFINE T == {k \in 0 .. n : m[k] \in A}
<1>11. \A k \in 0 .. n : k \in T
  <2>1. 0 \in T
    BY <1>1, <1>9
  <2>2. \A k \in 0 .. n - 1 : k \in T => k + 1 \in T
    BY <1>2, <1>10
  <2> HIDE DEF T
  <2> QED
    BY <2>1, <2>2, Upwards
<1>12. m[n] \in A
  BY <1>11
<1>13. WriteItems(isd, request) \in A
  <2>1. Silent(Serving) \in A
    BY <1>1, SilentKeeps DEF A
  <2> QED
    BY <1>0, <1>5, <1>12, <2>1 DEF m
<1>14. ASSUME ~request.chunked, \A entry \in E : ~Unusable(entry),
              \A k \in 1 .. Len(paths) : ~WriterRaises(paths[k])
       PROVE  ~WriteItems(isd, request).silent /\ Len(WriteItems(isd, request).answers) = n
  <2> DEFINE U == {k \in 0 .. n : ~m[k].silent /\ Len(m[k].answers) = k}
  <2>1. 0 \in U
    BY <1>1, <1>9
  <2>2. ASSUME NEW k \in 0 .. n - 1, k \in U PROVE k + 1 \in U
    <3>1. m[k] \in A /\ ~m[k].silent /\ Len(m[k].answers) = k
      BY <1>11, <2>2
    <3>2. ~WriterRaises(paths[k + 1]) /\ paths[k + 1].data \in F
          /\ Writes(E, paths[k + 1].data, isd.fabric_index)
      BY <1>0, <1>10, <1>14 DEF Carries
    <3>3. /\ ~WriteAttribute(m[k], isd, paths[k + 1], timed).silent
          /\ Len(WriteAttribute(m[k], isd, paths[k + 1], timed).answers) = k + 1
      BY <1>14, <3>1, <3>2, WriteKeeps DEF A
    <3> QED
      BY <1>10, <3>3
  <2> HIDE DEF U
  <2>3. \A k \in 0 .. n : k \in U
    BY <2>1, <2>2, Upwards
  <2>4. ~m[n].silent /\ Len(m[n].answers) = n
    BY <2>3 DEF U
  <2> QED
    BY <1>0, <1>5, <1>14, <2>4 DEF m
<1> QED
  BY <1>0, <1>13, <1>14 DEF A
-----------------------------------------------------------------------------
(* A command runs only for who deserves it.                                     *)
LEMMA InvokeStatusTells ==
    ASSUME NEW granted, NEW e, NEW c, NEW name, NEW timed
    PROVE  /\ InvokeStatus(granted, <<e, c>>, name, timed) \in Answer
           /\ InvokeStatus(granted, <<e, c>>, name, timed) = "SUCCESS" =>
                 /\ Located(<<e, c>>) = "SUCCESS"
                 /\ name \in DOMAIN Commands[c]
                 /\ {"Operate", Commands[c][name].privilege} \subseteq granted
                 /\ Commands[c][name].timed => timed
BY DEF InvokeStatus, Located, Answer

(* (a name for the state with another list, which the provers need not unfold)   *)
Changed(m, list, fs) == [m EXCEPT !.fabrics = fs, !.acl = list]

LEMMA ChangedKeeps ==
    ASSUME NEW E, NEW F, NEW isd, NEW timed, NEW m \in Good(E, F, isd, timed),
           NEW list \in Seq(E), NEW fs \in SUBSET FabricIndex
    PROVE  /\ Changed(m, list, fs) \in Good(E, F, isd, timed)
           /\ Changed(m, list, fs).silent = m.silent
           /\ Changed(m, list, fs).answers = m.answers
BY DEF Good, Machine, Changed

(* What a command does to the fabrics and to the list.                     *)
LEMMA EffectKeeps ==
    ASSUME NEW E, Admits(E), NEW F, NEW isd, NEW timed,
           NEW m \in Good(E, F, isd, timed), NEW name, NEW fields
    PROVE  /\ Effect(m, name, fields) \in Good(E, F, isd, timed)
           /\ Effect(m, name, fields).silent = m.silent
           /\ Effect(m, name, fields).answers = m.answers
<1>1. m.acl \in Seq(E) /\ m.fabrics \in SUBSET FabricIndex
  BY DEF Good, Machine
<1>2. CASE name = "add_noc" /\ ~(FabricIndex \subseteq m.fabrics)
  <2> DEFINE free == FabricIndex \ m.fabrics
             i == Min(free)
             list == WithAdministrator(m.acl, i)
             fs == m.fabrics \cup {i}
  <2>1. i \in FabricIndex
    <3>1. free \in SUBSET Nat /\ free # {}
      BY <1>2, DispatchAssumption
    <3> HIDE DEF free
    <3>2. \E x \in free : \A y \in free : x <= y
      BY <3>1, LeastOf
    <3>3. Min(free) \in free
      BY <3>2 DEF Min
    <3> QED
      BY <3>3 DEF free
  <2>2. Effect(m, name, fields) = Changed(m, list, fs)
    BY <1>1, <1>2 DEF Effect, AddNoc, Changed, Good, Machine
  <2> HIDE DEF i
  <2>3. list \in Seq(E) /\ fs \in SUBSET FabricIndex
    BY <1>1, <2>1 DEF WithAdministrator, Admits
  <2> HIDE DEF list, fs
  <2> QED
    BY <2>2, <2>3, ChangedKeeps
<1>3. CASE name = "remove_fabric" /\ fields \in m.fabrics
  <2> DEFINE list == Without(m.acl, fields)
             fs == m.fabrics \ {fields}
  <2>1. Effect(m, name, fields) = Changed(m, list, fs)
    BY <1>1, <1>3 DEF Effect, RemoveFabric, Changed, Good, Machine
  <2>2. list \in Seq(E) /\ fs \in SUBSET FabricIndex
    BY <1>1, WithoutKeeps
  <2> HIDE DEF list, fs
  <2> QED
    BY <2>1, <2>2, ChangedKeeps
<1>4. CASE /\ ~(name = "add_noc" /\ ~(FabricIndex \subseteq m.fabrics))
           /\ ~(name = "remove_fabric" /\ fields \in m.fabrics)
  <2>1. Effect(m, name, fields) = m
    BY <1>4 DEF Effect, AddNoc, RemoveFabric
  <2> QED
    BY <2>1
<1> QED
  BY <1>2, <1>3, <1>4

(* A handler that returns something, and is reached where it decodes.      *)
Ended(command, fields, ending) ==
    /\ command.handled /\ command.returns # "nothing" /\ ending = "returns"
    /\ ~(command.decodes /\ fields = Broken)

(* A command that runs, once its fields are decoded.                       *)
LEMMA RunKeeps ==
    ASSUME NEW E, Admits(E), NEW F, NEW isd, NEW timed \in BOOLEAN,
           NEW m \in Good(E, F, isd, timed), NEW e, NEW c,
           <<e, c>> \in Object, c \in DOMAIN Commands,
           NEW name \in DOMAIN Commands[c], NEW fields \in F, NEW ending,
           {"Operate", Commands[c][name].privilege} \subseteq
              Deserved(m.acl, isd, <<e, c>>),
           {"Operate", Commands[c][name].privilege} \subseteq Privileges,
           Commands[c][name].timed => timed
    PROVE  LET run == Run(m, <<e, c>>, name, fields, ending)
           IN  /\ run.after \in Good(E, F, isd, timed)
               /\ run.after.silent = m.silent
               /\ run.kind \in Answer \cup {None}
               /\ Ended(Commands[c][name], fields, ending) =>
                     /\ run.kind # None
                     /\ run.kind = "pair" => Commands[c][name].returns = "pair"
<1> DEFINE object == <<e, c>>
           command == Commands[c][name]
           needs == {"Operate", command.privilege}
           called == Called(m, object, needs, command.timed, fields)
           run == Run(m, object, name, fields, ending)
<1>1. /\ command.timed \in BOOLEAN
      /\ command.returns \in {"nothing", "status", "data", "pair", "no handler"}
      /\ command.returns # None /\ None # "status"
  BY DispatchAssumption, NoneAssumption
<1>2. run = IF ~command.handled \/ (command.decodes /\ fields = Broken)
            THEN [after |-> m, kind |-> None]
            ELSE IF command.decodes /\ fields = Malformed
            THEN [after |-> m, kind |-> "status"]
            ELSE [after |-> IF ending = "raises before" THEN called
                            ELSE Effect(called, name, fields),
                  kind |-> IF ending # "returns" \/ command.returns = "nothing" THEN None
                           ELSE command.returns]
  BY DEF Run
<1>3. called \in Good(E, F, isd, timed) /\ called.silent = m.silent
  <2>1. E \subseteq Entry
    BY DEF Admits
  <2> HIDE DEF needs, object, command
  <2>2. needs \in SUBSET Privileges /\ object \in Object
        /\ needs \subseteq Deserved(m.acl, isd, object) /\ (command.timed => timed)
    BY DEF needs, object, command
  <2>3. PICK t \in BOOLEAN : t = command.timed
    BY <1>1
  <2>4. t => timed
    BY <2>2, <2>3
  <2>5. Called(m, object, needs, t, fields) \in Good(E, F, isd, timed)
        /\ Called(m, object, needs, t, fields).silent = m.silent
    BY <2>1, <2>2, <2>4, CalledKeeps
  <2> QED
    BY <2>3, <2>5
<1> HIDE DEF called, run, command
<1>4. /\ Effect(called, name, fields) \in Good(E, F, isd, timed)
      /\ Effect(called, name, fields).silent = m.silent
  BY <1>3, EffectKeeps
<1>5. /\ run.after \in Good(E, F, isd, timed)
      /\ run.after.silent = m.silent
      /\ run.kind \in Answer \cup {None}
      /\ Ended(command, fields, ending) =>
            run.kind # None /\ (run.kind = "pair" => command.returns = "pair")
  BY <1>1, <1>2, <1>3, <1>4 DEF Answer, Ended
<1> QED
  BY <1>5 DEF run, command

(* No handler the item names fails to answer.                                   *)
Answerable(item) ==
    /\ None \notin {item.cluster, item.command}
    /\ item.cluster \in DOMAIN Commands /\ item.command \in DOMAIN Commands[item.cluster]
       => ~CommandRaises(Commands[item.cluster][item.command], item)

LEMMA AnswerableEnds ==
    ASSUME NEW item, Answerable(item), NEW e \in Endpoint, item.endpoint \in {None, e},
           item.cluster \in DOMAIN Commands, item.command \in DOMAIN Commands[item.cluster],
           NEW fields \in {item.fields, Malformed}
    PROVE  /\ Ended(Commands[item.cluster][item.command], fields, item.ends[e])
           /\ Commands[item.cluster][item.command].returns = "pair" => item.endpoint # None
<1>1. ~CommandRaises(Commands[item.cluster][item.command], item)
  BY DEF Answerable
<1>2. Malformed # Broken
  BY NoneAssumption
<1> QED
  BY <1>1, <1>2 DEF CommandRaises, Ended

LEMMA GrantsOf ==
    ASSUME NEW E, Admits(E), NEW F, NEW isd, NEW timed,
           NEW m \in Good(E, F, isd, timed), NEW object
    PROVE  /\ Granted(m.acl, isd, object) \in Result
           /\ Granted(m.acl, isd, object).failed = None =>
                 Granted(m.acl, isd, object).granted = Deserved(m.acl, isd, object)
           /\ (\A entry \in E : ~Unusable(entry)) =>
                 Granted(m.acl, isd, object).failed = None
<1>1. m.acl \in Seq(E) /\ E \subseteq Entry
  BY DEF Good, Machine, Admits
<1>2. m.acl \in Seq(Entry)
  BY <1>1, WiderList
<1>3. \A e \in ToSet(m.acl) : e \in E
  BY <1>1 DEF ToSet
<1> QED
  BY <1>2, <1>3, GrantedIsDeserved, UsableNeverFails DEF Granted

(* An item that names its endpoint, and one that names none.               *)
LEMMA ConcreteKeeps ==
    ASSUME NEW E, Admits(E), NEW F, NEW isd, NEW timed \in BOOLEAN,
           NEW m \in Good(E, F, isd, timed), NEW item, item.fields \in F
    PROVE  /\ InvokeConcrete(m, isd, item, timed) \in Good(E, F, isd, timed)
           /\ /\ ~m.silent
              /\ \A entry \in E : ~Unusable(entry)
              /\ Answerable(item)
              => ~InvokeConcrete(m, isd, item, timed).silent
<1> DEFINE e == item.endpoint
           c == item.cluster
           object == <<e, c>>
           result == Granted(m.acl, isd, object)
           status == InvokeStatus(result.granted, object, item.command, timed)
           run == Run(m, object, item.command, item.fields, item.ends[e])
<1>1. InvokeConcrete(m, isd, item, timed) =
         IF result.failed # None THEN Silent(m)
         ELSE IF status # "SUCCESS" THEN Answered(m, status)
         ELSE IF run.kind = None THEN Silent(run.after)
         ELSE Answered(run.after, run.kind)
  BY DEF InvokeConcrete
<1>2. /\ result \in Result
      /\ result.failed = None => result.granted = Deserved(m.acl, isd, object)
      /\ (\A entry \in E : ~Unusable(entry)) => result.failed = None
  BY GrantsOf
<1>3. /\ status \in Answer
      /\ status = "SUCCESS" =>
            /\ Located(object) = "SUCCESS"
            /\ item.command \in DOMAIN Commands[c]
            /\ {"Operate", Commands[c][item.command].privilege} \subseteq result.granted
            /\ Commands[c][item.command].timed => timed
  BY InvokeStatusTells
<1> HIDE DEF result, status
<1>4. CASE result.failed # None
  BY <1>1, <1>2, <1>4, SilentKeeps
<1>5. CASE result.failed = None /\ status # "SUCCESS"
  <2>1. InvokeConcrete(m, isd, item, timed) = Answered(m, status)
    BY <1>1, <1>5
  <2> QED
    BY <1>3, <2>1, AnsweredKeeps
<1>6. CASE result.failed = None /\ status = "SUCCESS"
  <2>1. object \in Object /\ c \in DOMAIN Commands
    BY <1>3, <1>6, LocatedObject
  <2>2. result.granted \subseteq Privileges
    BY <1>2 DEF Result
  <2> HIDE DEF e, c
  <2>3. /\ run.after \in Good(E, F, isd, timed)
        /\ run.after.silent = m.silent
        /\ run.kind \in Answer \cup {None}
        /\ Ended(Commands[c][item.command], item.fields, item.ends[e]) => run.kind # None
    BY <1>2, <1>3, <1>6, <2>1, <2>2, RunKeeps
  <2>4. Answerable(item) => run.kind # None
    <3>1. e \in Endpoint
      BY <1>3, <1>6, LocatedObject DEF e
    <3>2. Answerable(item) => Ended(Commands[c][item.command], item.fields, item.ends[e])
      BY <1>3, <1>6, <2>1, <3>1, AnswerableEnds DEF c, e
    <3> QED
      BY <2>3, <3>2
  <2> HIDE DEF run
  <2>5. CASE run.kind = None
    <3>1. InvokeConcrete(m, isd, item, timed) = Silent(run.after)
      BY <1>1, <1>6, <2>5
    <3> QED
      BY <2>3, <2>4, <2>5, <3>1, SilentKeeps
  <2>6. CASE run.kind # None
    <3>1. InvokeConcrete(m, isd, item, timed) = Answered(run.after, run.kind)
      BY <1>1, <1>6, <2>6
    <3> QED
      BY <2>3, <2>6, <3>1, AnsweredKeeps
  <2> QED
    BY <2>5, <2>6
<1> QED
  BY <1>4, <1>5, <1>6

(* An endpoint of a wildcard invocation                                         *)
Walk(E, F, isd, timed) == [m : Good(E, F, isd, timed), fields : F]

LEMMA InvokeAtKeeps ==
    ASSUME NEW E, Admits(E), NEW F, Malformed \in F, NEW isd, NEW timed \in BOOLEAN,
           NEW w \in Walk(E, F, isd, timed), NEW item, NEW e
    PROVE  /\ InvokeAt(w, isd, item, timed, e) \in Walk(E, F, isd, timed)
           /\ InvokeAt(w, isd, item, timed, e).fields \in {w.fields, Malformed}
           /\ /\ ~w.m.silent /\ w.fields \in {item.fields, Malformed}
              /\ \A entry \in E : ~Unusable(entry)
              /\ item.endpoint = None /\ Answerable(item)
              => ~InvokeAt(w, isd, item, timed, e).m.silent
<1> DEFINE c == item.cluster
           object == <<e, c>>
           result == Granted(w.m.acl, isd, object)
           status == InvokeStatus(result.granted, object, item.command, timed)
           run == Run(w.m, object, item.command, w.fields, item.ends[e])
           after == InvokeAt(w, isd, item, timed, e)
<1>1. after =
         IF w.m.silent \/ Located(object) # "SUCCESS" THEN w
         ELSE IF result.failed # None THEN [w EXCEPT !.m = Silent(w.m)]
         ELSE IF status # "SUCCESS" THEN w
         ELSE IF run.kind \in {None, "pair"} THEN [w EXCEPT !.m = Silent(run.after)]
         ELSE [m |-> Answered(run.after, run.kind), fields |-> Malformed]
  BY DEF InvokeAt
<1>2. w.m \in Good(E, F, isd, timed) /\ w.fields \in F
  BY DEF Walk
<1>3. /\ result \in Result
      /\ result.failed = None => result.granted = Deserved(w.m.acl, isd, object)
      /\ (\A entry \in E : ~Unusable(entry)) => result.failed = None
  <2> DEFINE Grants(x) ==
        /\ Granted(x.acl, isd, object) \in Result
        /\ Granted(x.acl, isd, object).failed = None =>
              Granted(x.acl, isd, object).granted = Deserved(x.acl, isd, object)
        /\ (\A entry \in E : ~Unusable(entry)) =>
              Granted(x.acl, isd, object).failed = None
  <2>1. \A x \in Good(E, F, isd, timed) : Grants(x)
    BY GrantsOf
  <2>2. Grants(w.m)
    BY <1>2, <2>1, Zenon
  <2> QED
    BY <2>2
<1>4. status = "SUCCESS" =>
         /\ Located(object) = "SUCCESS"
         /\ item.command \in DOMAIN Commands[c]
         /\ {"Operate", Commands[c][item.command].privilege} \subseteq result.granted
         /\ Commands[c][item.command].timed => timed
  BY InvokeStatusTells
<1> HIDE DEF result, status, after
<1>5. CASE \/ w.m.silent \/ Located(object) # "SUCCESS"
           \/ (result.failed = None /\ status # "SUCCESS")
  <2>1. after = w
    BY <1>1, <1>5
  <2> QED
    BY <2>1 DEF after
<1>6. CASE ~w.m.silent /\ Located(object) = "SUCCESS" /\ result.failed # None
  <2>1. after = [w EXCEPT !.m = Silent(w.m)]
    BY <1>1, <1>6
  <2>2. Silent(w.m) \in Good(E, F, isd, timed)
    BY <1>2, SilentKeeps
  <2>3. after \in Walk(E, F, isd, timed) /\ after.fields = w.fields
    BY <2>1, <2>2 DEF Walk
  <2> QED
    BY <1>3, <1>6, <2>3 DEF after
<1>7. CASE ~w.m.silent /\ result.failed = None /\ status = "SUCCESS"
  <2>1. object \in Object /\ c \in DOMAIN Commands
    BY <1>4, <1>7, LocatedObject
  <2>2. result.granted \subseteq Privileges
    BY <1>3 DEF Result
  <2> HIDE DEF c
  <2>3. /\ run.after \in Good(E, F, isd, timed)
        /\ run.after.silent = w.m.silent
        /\ run.kind \in Answer \cup {None}
        /\ Ended(Commands[c][item.command], w.fields, item.ends[e]) =>
              /\ run.kind # None
              /\ run.kind = "pair" => Commands[c][item.command].returns = "pair"
    BY <1>2, <1>3, <1>4, <1>7, <2>1, <2>2, RunKeeps
  <2>4. /\ item.endpoint = None /\ Answerable(item)
        /\ w.fields \in {item.fields, Malformed}
        => run.kind \notin {None, "pair"}
    <3>1. e \in Endpoint
      BY <1>4, <1>7, LocatedObject
    <3>2. PICK fields : fields = w.fields
      OBVIOUS
    <3>3. ASSUME item.endpoint = None, Answerable(item), fields \in {item.fields, Malformed}
          PROVE  /\ Ended(Commands[c][item.command], fields, item.ends[e])
                 /\ Commands[c][item.command].returns # "pair"
      BY <1>4, <1>7, <2>1, <3>1, <3>3, AnswerableEnds DEF c
    <3> QED
      BY <2>3, <3>2, <3>3
  <2> HIDE DEF run
  <2>5. CASE run.kind \in {None, "pair"}
    <3>1. after = [w EXCEPT !.m = Silent(run.after)]
      BY <1>1, <1>4, <1>7, <2>5
    <3>2. Silent(run.after) \in Good(E, F, isd, timed)
      BY <2>3, SilentKeeps
    <3>3. after \in Walk(E, F, isd, timed) /\ after.fields = w.fields
      BY <3>1, <3>2 DEF Walk
    <3> QED
      BY <2>4, <2>5, <3>3 DEF after
  <2>6. CASE run.kind \notin {None, "pair"}
    <3>1. after = [m |-> Answered(run.after, run.kind), fields |-> Malformed]
      BY <1>1, <1>4, <1>7, <2>6
    <3>2. /\ Answered(run.after, run.kind) \in Good(E, F, isd, timed)
          /\ Answered(run.after, run.kind).silent = w.m.silent
      BY <2>3, <2>6, AnsweredKeeps
    <3>3. /\ after \in Walk(E, F, isd, timed) /\ after.m.silent = w.m.silent
          /\ after.fields = Malformed
      BY <3>1, <3>2 DEF Walk
    <3> QED
      BY <1>7, <3>3 DEF after
  <2> QED
    BY <2>5, <2>6
<1> QED
  BY <1>5, <1>6, <1>7

(* (the conjuncts of the next lemma: w holds what each endpoint leaves)          *)
Walked(w, A, m, isd, item, timed) ==
    /\ w[0] = [m |-> m, fields |-> item.fields]
    /\ \A k \in 0 .. Max(Endpoint) + 1 : w[k] \in A
    /\ \A k \in 0 .. Max(Endpoint) : w[k + 1] = InvokeAt(w[k], isd, item, timed, k)
    /\ InvokeWildcard(m, isd, item, timed) = w[Max(Endpoint) + 1].m

(* A wildcard invocation is a walk over the endpoints.                          *)
LEMMA WildcardWalks ==
    ASSUME NEW E, Admits(E), NEW F, Malformed \in F, NEW isd, NEW timed \in BOOLEAN,
           NEW m \in Good(E, F, isd, timed), NEW item, item.fields \in F
    PROVE  \E w : Walked(w, Walk(E, F, isd, timed), m, isd, item, timed)
<1> DEFINE n == Max(Endpoint) + 1
           A == Walk(E, F, isd, timed)
           first == [m |-> m, fields |-> item.fields]
           step == [k \in 1 .. n |-> [v \in A |-> InvokeAt(v, isd, item, timed, k - 1)]]
           Rule(f) == f = [k \in 0 .. Max(Endpoint) + 1 |->
                             IF k = 0 THEN [m |-> m, fields |-> item.fields]
                             ELSE InvokeAt(f[k - 1], isd, item, timed, k - 1)]
<1>0. Max(Endpoint) \in Nat
  BY DispatchAssumption, Zenon DEF Endpoint
<1>1. n \in Nat /\ 0 .. Max(Endpoint) = 0 .. n - 1
  BY <1>0
<1>2. first \in A /\ first.m = m
  BY DEF Walk
<1>3. \A k \in 1 .. n, v \in A : InvokeAt(v, isd, item, timed, k - 1) \in A
  BY InvokeAtKeeps
<1>4. step \in Steps(A, n)
  BY <1>3 DEF Steps
<1>5. \A k \in 1 .. n, v \in A : step[k][v] = InvokeAt(v, isd, item, timed, k - 1)
  OBVIOUS
<1>6. InvokeWildcard(m, isd, item, timed) = (CHOOSE f : Rule(f))[n].m
  BY DEF InvokeWildcard
<1>7. \A f : Rule(f) <=> f = [k \in 0 .. n |->
                                IF k = 0 THEN first
                                ELSE InvokeAt(f[k - 1], isd, item, timed, k - 1)]
  OBVIOUS
<1> HIDE DEF step, A, n, first
<1>8. PICK g \in [0 .. n -> A] :
             g[0] = first /\ \A k \in 1 .. n : g[k] = step[k][g[k - 1]]
  <2>1. \E g : g \in Iterations(A, first, n, step)
    BY <1>1, <1>2, <1>4, IterationExists
  <2> QED
    BY <2>1 DEF Iterations
<1>9. Rule(g)
  <2>1. ASSUME NEW k \in 1 .. n PROVE g[k] = InvokeAt(g[k - 1], isd, item, timed, k - 1)
    <3>1. k - 1 \in 0 .. n
      BY <1>1
    <3> QED
      BY <1>5, <1>8, <3>1
  <2>2. ASSUME NEW k \in 0 .. n
        PROVE  g[k] = IF k = 0 THEN first
                      ELSE InvokeAt(g[k - 1], isd, item, timed, k - 1)
    <3>1. k = 0 \/ k \in 1 .. n
      BY <1>1
    <3> QED
      BY <1>8, <2>1, <3>1, Zenon
  <2>3. g = [k \in 0 .. n |-> IF k = 0 THEN first
                              ELSE InvokeAt(g[k - 1], isd, item, timed, k - 1)]
    BY <1>8, <2>2, Zenon
  <2> QED
    BY <1>7, <2>3, Zenon
<1> DEFINE w == CHOOSE f : Rule(f)
<1>10. w = [k \in 0 .. n |-> IF k = 0 THEN first
                             ELSE InvokeAt(w[k - 1], isd, item, timed, k - 1)]
  <2>1. Rule(w)
    BY <1>9, Zenon
  <2> QED
    BY <1>7, <2>1, Zenon
<1> HIDE DEF w
<1>11. w[0] = first
  BY <1>1, <1>10
<1>12. ASSUME NEW k \in 0 .. n - 1
       PROVE  k + 1 \in 1 .. n /\ w[k + 1] = InvokeAt(w[k], isd, item, timed, k)
  <2>1. k + 1 \in 0 .. n /\ k + 1 \in 1 .. n /\ k + 1 # 0 /\ (k + 1) - 1 = k
    BY <1>1
  <2>2. w[k + 1] = InvokeAt(w[(k + 1) - 1], isd, item, timed, (k + 1) - 1)
    BY <1>10, <2>1, Zenon
  <2> QED
    BY <2>1, <2>2
<1> DEFINE T == {k \in 0 .. n : w[k] \in A}
<1>13. \A k \in 0 .. n : k \in T
  <2>1. 0 \in T
    BY <1>1, <1>2, <1>11
  <2>2. ASSUME NEW k \in 0 .. n - 1, k \in T PROVE k + 1 \in T
    <3>1. w[k] \in A
      BY <2>2
    <3>2. InvokeAt(w[k], isd, item, timed, k) \in A
      BY <3>1, InvokeAtKeeps DEF A
    <3> QED
      BY <1>1, <1>12, <3>2
  <2> HIDE DEF T
  <2> QED
    BY <1>1, <2>1, <2>2, Upwards
<1>14. \A k \in 0 .. Max(Endpoint) : w[k + 1] = InvokeAt(w[k], isd, item, timed, k)
  BY <1>1, <1>12
<1>15. \A k \in 0 .. Max(Endpoint) + 1 : w[k] \in A
  BY <1>13 DEF n
<1> QED
  BY <1>6, <1>11, <1>14, <1>15 DEF Walked, A, n, first, w

LEMMA WildcardKeeps ==
    ASSUME NEW E, Admits(E), NEW F, Malformed \in F, NEW isd, NEW timed \in BOOLEAN,
           NEW m \in Good(E, F, isd, timed), NEW item, item.fields \in F
    PROVE  /\ InvokeWildcard(m, isd, item, timed) \in Good(E, F, isd, timed)
           /\ /\ ~m.silent
              /\ \A entry \in E : ~Unusable(entry)
              /\ item.endpoint = None /\ Answerable(item)
              => ~InvokeWildcard(m, isd, item, timed).silent
<1> DEFINE n == Max(Endpoint) + 1
           A == Walk(E, F, isd, timed)
<1>0. Max(Endpoint) \in Nat
  BY DispatchAssumption, Zenon DEF Endpoint
<1>1. n \in Nat /\ 0 .. Max(Endpoint) = 0 .. n - 1
  BY <1>0
<1>2. PICK w : Walked(w, A, m, isd, item, timed)
  BY WildcardWalks
<1>3. /\ w[0].m = m /\ w[0].fields = item.fields
      /\ InvokeWildcard(m, isd, item, timed) = w[n].m
  BY <1>2 DEF Walked
<1>4. \A k \in 0 .. n : w[k] \in A
  BY <1>2 DEF Walked
<1>5. \A k \in 0 .. n - 1 : k + 1 \in 0 .. n /\ w[k + 1] = InvokeAt(w[k], isd, item, timed, k)
  <2>1. \A k \in 0 .. Max(Endpoint) : w[k + 1] = InvokeAt(w[k], isd, item, timed, k)
    BY <1>2 DEF Walked
  <2> HIDE DEF n
  <2>2. \A k \in 0 .. n - 1 : k + 1 \in 0 .. n
    BY <1>1
  <2> QED
    BY <1>1, <2>1, <2>2, Zenon
<1> HIDE DEF n, A
<1>6. w[n].m \in Good(E, F, isd, timed)
  BY <1>1, <1>4 DEF A, Walk
<1>7. ASSUME ~m.silent, \A entry \in E : ~Unusable(entry),
             item.endpoint = None, Answerable(item)
      PROVE  ~w[n].m.silent
  <2> DEFINE U == {k \in 0 .. n : /\ ~w[k].m.silent
                                   /\ w[k].fields \in {item.fields, Malformed}}
  <2>1. 0 \in U
    BY <1>1, <1>3, <1>7
  <2>2. ASSUME NEW k \in 0 .. n - 1, k \in U PROVE k + 1 \in U
    <3>1. w[k] \in A /\ ~w[k].m.silent /\ w[k].fields \in {item.fields, Malformed}
      BY <1>4, <2>2
    <3>2. /\ ~InvokeAt(w[k], isd, item, timed, k).m.silent
          /\ InvokeAt(w[k], isd, item, timed, k).fields \in {item.fields, Malformed}
      BY <1>7, <3>1, InvokeAtKeeps DEF A
    <3> QED
      BY <1>5, <3>2
  <2> HIDE DEF U
  <2>3. \A k \in 0 .. n : k \in U
    BY <1>1, <2>1, <2>2, Upwards
  <2> QED
    BY <1>1, <2>3 DEF U
<1> QED
  BY <1>3, <1>6, <1>7 DEF n

LEMMA CommandKeeps ==
    ASSUME NEW E, Admits(E), NEW F, Malformed \in F, NEW isd, NEW timed \in BOOLEAN,
           NEW m \in Good(E, F, isd, timed), NEW item, item.fields \in F
    PROVE  /\ InvokeCommand(m, isd, item, timed) \in Good(E, F, isd, timed)
           /\ /\ ~m.silent
              /\ \A entry \in E : ~Unusable(entry)
              /\ Answerable(item)
              => ~InvokeCommand(m, isd, item, timed).silent
<1>1. CASE m.silent
  BY <1>1 DEF InvokeCommand
<1>2. CASE ~m.silent /\ None \in {item.cluster, item.command}
  BY <1>2, SilentKeeps DEF InvokeCommand, Answerable
<1>3. CASE /\ ~m.silent /\ None \notin {item.cluster, item.command}
           /\ item.endpoint = None
  BY <1>3, WildcardKeeps DEF InvokeCommand
<1>4. CASE /\ ~m.silent /\ None \notin {item.cluster, item.command}
           /\ item.endpoint # None
  BY <1>4, ConcreteKeeps DEF InvokeCommand
<1> QED
  BY <1>1, <1>2, <1>3, <1>4

(* All the items of an invocation.                                         *)
LEMMA InvokeItemsKeep ==
    ASSUME NEW E, Admits(E), Serves(E), NEW F, Malformed \in F, NEW isd, NEW request,
           request.timed \in BOOLEAN, NEW n \in Nat, n = Len(request.items),
           \A k \in 1 .. n : request.items[k].fields \in F
    PROVE  /\ InvokeItems(isd, request) \in Good(E, F, isd, request.timed)
           /\ /\ \A entry \in E : ~Unusable(entry)
              /\ \A k \in 1 .. n : Answerable(request.items[k])
              => ~InvokeItems(isd, request).silent
<1> DEFINE items == request.items
           timed == request.timed
           A == Good(E, F, isd, timed)
           step == [k \in 1 .. n |-> [m \in A |-> InvokeCommand(m, isd, items[k], timed)]]
           Rule(f) == f = [k \in 0 .. Len(items) |->
                             IF k = 0 THEN Serving
                             ELSE InvokeCommand(f[k - 1], isd, items[k], request.timed)]
<1>1. Serving \in A /\ ~Serving.silent
  BY ServingIsGood
<1>2. \A k \in 1 .. n, m \in A : InvokeCommand(m, isd, items[k], timed) \in A
  BY CommandKeeps
<1>3. step \in Steps(A, n)
  BY <1>2 DEF Steps
<1>4. \A k \in 1 .. n, m \in A : step[k][m] = InvokeCommand(m, isd, items[k], timed)
  OBVIOUS
<1>5. InvokeItems(isd, request) = (CHOOSE f : Rule(f))[Len(items)]
  BY DEF InvokeItems
<1> HIDE DEF step, A
<1>6. PICK g \in [0 .. n -> A] :
             g[0] = Serving /\ \A k \in 1 .. n : g[k] = step[k][g[k - 1]]
  <2>1. \E g : g \in Iterations(A, Serving, n, step)
    BY <1>1, <1>3, IterationExists
  <2> QED
    BY <2>1 DEF Iterations
<1>7. Rule(g)
  <2>1. ASSUME NEW k \in 1 .. n PROVE g[k] = InvokeCommand(g[k - 1], isd, items[k], timed)
    <3>1. k - 1 \in 0 .. n
      OBVIOUS
    <3> QED
      BY <1>4, <1>6, <3>1
  <2>2. ASSUME NEW k \in 0 .. n
        PROVE  g[k] = IF k = 0 THEN Serving
                      ELSE InvokeCommand(g[k - 1], isd, items[k], timed)
    <3>1. k = 0 \/ k \in 1 .. n
      OBVIOUS
    <3> QED
      BY <1>6, <2>1, <3>1, Zenon
  <2> QED
    BY <1>6, <2>2, Zenon
<1> DEFINE m == CHOOSE f : Rule(f)
<1>8. Rule(m)
  BY <1>7
<1> HIDE DEF m
<1>9. m[0] = Serving
  BY <1>8
<1>10. ASSUME NEW k \in 0 .. n - 1
       PROVE  k + 1 \in 1 .. n /\ m[k + 1] = InvokeCommand(m[k], isd, items[k + 1], timed)
  <2>1. k + 1 \in 0 .. n /\ k + 1 \in 1 .. n /\ k + 1 # 0 /\ (k + 1) - 1 = k
    OBVIOUS
  <2>2. m[k + 1] = InvokeCommand(m[(k + 1) - 1], isd, items[k + 1], timed)
    BY <1>8, <2>1, Zenon
  <2> QED
    BY <2>1, <2>2
<1> DEFINE T == {k \in 0 .. n : m[k] \in A}
<1>11. \A k \in 0 .. n : k \in T
  <2>1. 0 \in T
    BY <1>1, <1>9
  <2>2. \A k \in 0 .. n - 1 : k \in T => k + 1 \in T
    BY <1>2, <1>10
  <2> HIDE DEF T
  <2> QED
    BY <2>1, <2>2, Upwards
<1>12. InvokeItems(isd, request) \in A
  <2>1. m[n] \in A
    BY <1>11
  <2> QED
    BY <1>5, <2>1 DEF m
<1>13. ASSUME \A entry \in E : ~Unusable(entry), \A k \in 1 .. n : Answerable(items[k])
       PROVE  ~InvokeItems(isd, request).silent
  <2> DEFINE U == {k \in 0 .. n : ~m[k].silent}
  <2>1. 0 \in U
    BY <1>1, <1>9
  <2>2. ASSUME NEW k \in 0 .. n - 1, k \in U PROVE k + 1 \in U
    <3>1. m[k] \in A /\ ~m[k].silent
      BY <1>11, <2>2
    <3>2. Answerable(items[k + 1]) /\ items[k + 1].fields \in F
      BY <1>10, <1>13
    <3>3. ~InvokeCommand(m[k], isd, items[k + 1], timed).silent
      BY <1>13, <3>1, <3>2, CommandKeeps DEF A
    <3> QED
      BY <1>10, <3>3
  <2> HIDE DEF U
  <2>3. \A k \in 0 .. n : k \in U
    BY <2>1, <2>2, Upwards
  <2>4. ~m[n].silent
    BY <2>3 DEF U
  <2> QED
    BY <1>5, <2>4 DEF m
<1> QED
  BY <1>12, <1>13 DEF A
-----------------------------------------------------------------------------
(* The sessions there are: those of a fabric in use and those of none.          *)
LEMMA PresentFabric ==
    ASSUME DispatchTypeOK, NEW isd \in Present
    PROVE  isd.fabric_index \in FabricIndex \cup {0}
BY DEF DispatchTypeOK, Present

LEMMA EntriesAdmitted == Admits(Entry)
<1>1. \A i \in FabricIndex : /\ Administrator(i).privilege_level = "Administer"
                            /\ Administrator(i).authentication_mode = "CASE"
  BY DEF Administrator
<1> QED
  BY <1>1, PrivilegesAre DEF Admits, Entry, AuthenticationModes

(* What a client writes makes entries that are typed.                           *)
LEMMA WritesEntries ==
    ASSUME NEW request \in Request, request.kind = "write",
           NEW k \in 1 .. Len(request.items), NEW i \in FabricIndex \cup {0}
    PROVE  Writes(Entry, request.items[k].data, i)
<1> DEFINE item == request.items[k]
<1>1. item \in ToSet(request.items)
  BY WrittenPaths
<1> SUFFICES ASSUME item.data \notin Undecodable
             PROVE  /\ IsList(item.data)
                    /\ \A struct \in ToSet(item.data) :
                          Known(struct) => Stored(struct, i) \in Entry
  BY DEF Writes
<1>2. IsList(item.data)
  BY <1>1, RequestAssumption
<1>3. ASSUME NEW struct \in ToSet(item.data), Known(struct)
      PROVE  Stored(struct, i) \in Entry
  <2>1. item \in UNION {ToSet(r.items) : r \in {q \in Request : q.kind = "write"}}
    BY <1>1
  <2> HIDE DEF item
  <2>2. struct \in Struct
    BY <1>3, <2>1 DEF Struct
  <2>3. /\ Stored(struct, i).privilege_level = struct.privilege
        /\ Stored(struct, i).authentication_mode = struct.auth_mode
    BY DEF Stored
  <2> QED
    BY <1>3, <2>2, <2>3 DEF Entry, Known
<1> QED
  BY <1>2, <1>3

(* A request leaves a list of entries and has only made calls that are deserved.*)
LEMMA ServedIsGood ==
    ASSUME DispatchTypeOK, NEW isd \in Present, NEW request \in Request
    PROVE  \E F : Served(isd, request) \in Good(Entry, F, isd, request.timed)
<1>1. Serves(Entry) /\ request.timed \in BOOLEAN
  BY RequestAssumption DEF DispatchTypeOK, Serves
<1>2. CASE request.kind = "write"
  <2> DEFINE paths == DecompressedPaths(request.items)
             F == {request.items[k].data : k \in 1 .. Len(request.items)}
  <2>1. /\ Len(request.items) \in Nat /\ Len(paths) = Len(request.items)
        /\ \A k \in 1 .. Len(request.items) : paths[k].data = request.items[k].data
    BY <1>2, WrittenPaths
  <2>2. \A k \in 1 .. Len(request.items) :
           paths[k].data \in F /\ Writes(Entry, paths[k].data, isd.fabric_index)
    BY <1>2, <2>1, WritesEntries, PresentFabric
  <2> HIDE DEF F
  <2>3. Carries(request, paths, Entry, F, isd)
    BY <2>1, <2>2 DEF Carries
  <2> HIDE DEF paths
  <2>4. WriteItems(isd, request) \in Good(Entry, F, isd, request.timed)
    BY <1>1, <2>3, WriteItemsKeep, EntriesAdmitted
  <2> QED
    BY <1>2, <2>4 DEF Served
<1>3. CASE request.kind # "write"
  <2> DEFINE F == {request.items[k].fields : k \in 1 .. Len(request.items)}
                  \cup {Malformed}
  <2>1. Len(request.items) \in Nat
    BY RequestAssumption DEF IsList
  <2>2. Malformed \in F /\ \A k \in 1 .. Len(request.items) : request.items[k].fields \in F
    OBVIOUS
  <2> HIDE DEF F
  <2>3. InvokeItems(isd, request) \in Good(Entry, F, isd, request.timed)
    BY <1>1, <2>1, <2>2, InvokeItemsKeep, EntriesAdmitted
  <2> QED
    BY <1>3, <2>3 DEF Served
<1> QED
  BY <1>2, <1>3

LEMMA InitInv == Init => DispatchTypeOK
BY DEF Init, DispatchTypeOK

LEMMA NextInv == DispatchTypeOK /\ [Next]_vars => DispatchTypeOK'
<1> SUFFICES ASSUME DispatchTypeOK, [Next]_vars PROVE DispatchTypeOK'
  OBVIOUS
<1>1. CASE UNCHANGED vars
  BY <1>1 DEF vars, DispatchTypeOK
<1>2. CASE Next
  <2>1. PICK isd \in Present, request \in Request :
                WriteRequest(isd, request) \/ InvokeRequest(isd, request)
    BY <1>2 DEF Next
  <2>2. /\ acl' = Served(isd, request).acl
        /\ fabrics' = Served(isd, request).fabrics
    BY <2>1 DEF WriteRequest, InvokeRequest, Become, Served
  <2>3. PICK F : Served(isd, request) \in Good(Entry, F, isd, request.timed)
    BY ServedIsGood
  <2> QED
    BY <2>2, <2>3 DEF Good, Machine, DispatchTypeOK
<1> QED
  BY <1>1, <1>2

(* The list holds entries of known privileges and well-formed targets only: a    *)
(* write of any other is refused whole.                                         *)
THEOREM DispatchTypeCorrect == Spec => []DispatchTypeOK
BY InitInv, NextInv, PTL DEF Spec

(* get_granted_privileges, with its early exits, agrees with its reference: for  *)
(* every list that requests can make, every session, object and device type.    *)
THEOREM GrantsMatchReferenceHolds == Spec => []GrantsMatchReference
<1>1. DispatchTypeOK => GrantsMatchReference
  BY GrantedIsDeserved DEF DispatchTypeOK, GrantsMatchReference
<1> QED
  BY <1>1, DispatchTypeCorrect, PTL

(* No request, whatever its items, makes a call that its session does not        *)
(* deserve when it is made.                                                     *)
THEOREM CallsAreDeservedHolds == Spec => []CallsAreDeserved
<1>1. DispatchTypeOK => CallsAreDeserved
  <2> SUFFICES ASSUME DispatchTypeOK, NEW isd \in Present, NEW request \in Request,
                      NEW call \in ToSet(Served(isd, request).calls)
               PROVE  /\ call.needs \subseteq Deserved(call.list, isd, call.object)
                      /\ call.timed => request.timed
    BY DEF CallsAreDeserved
  <2>1. PICK F : Served(isd, request) \in Good(Entry, F, isd, request.timed)
    BY ServedIsGood
  <2> DEFINE calls == Served(isd, request).calls
  <2>2. calls \in Seq(Call(F)) /\ \A k \in 1 .. Len(calls) : Due(calls[k], isd, request.timed)
    BY <2>1 DEF Good, Machine
  <2>3. PICK k \in 1 .. Len(calls) : call = calls[k]
    BY <2>2 DEF ToSet
  <2> QED
    BY <2>2, <2>3 DEF Due
<1> QED
  BY <1>1, DispatchTypeCorrect, PTL
-----------------------------------------------------------------------------
(* A list without unusable entries stays one while requests are served that      *)
(* write none.                                                                  *)
UsableEntry == {entry \in Entry : ~Unusable(entry)}

(* A write of usable targets leaves usable entries.                        *)
LEMMA UsableAdmitted ==
    ASSUME DispatchTypeOK, \A entry \in ToSet(acl) : ~Unusable(entry)
    PROVE  Admits(UsableEntry) /\ Serves(UsableEntry)
<1>1. \A i \in FabricIndex : Administrator(i) \in UsableEntry
  <2> TAKE i \in FabricIndex
  <2>1. Administrator(i).targets = <<>>
    BY DEF Administrator
  <2>2. ToSet(Administrator(i).targets) = {}
    BY <2>1 DEF ToSet
  <2>3. ~Unusable(Administrator(i))
    BY <2>2 DEF Unusable
  <2> QED
    BY <2>3, EntriesAdmitted DEF Admits, UsableEntry
<1>2. Serves(UsableEntry)
  <2>1. acl \in Seq(Entry) /\ fabrics \in SUBSET FabricIndex
    BY DEF DispatchTypeOK
  <2>2. \A k \in 1 .. Len(acl) : acl[k] \in Entry /\ acl[k] \in ToSet(acl)
    BY <2>1 DEF ToSet
  <2>3. \A k \in 1 .. Len(acl) : acl[k] \in UsableEntry
    BY <2>2 DEF UsableEntry
  <2> QED
    BY <2>1, <2>3 DEF Serves
<1> QED
  BY <1>1, <1>2 DEF Admits, UsableEntry

LEMMA AnyFabricAsUsable ==
    ASSUME NEW struct, NEW i, NEW j
    PROVE  Unusable(Stored(struct, i)) <=> Unusable(Stored(struct, j))
<1>1. Stored(struct, i).targets = Stored(struct, j).targets
  BY DEF Stored
<1> HIDE DEF Stored
<1> QED
  BY <1>1 DEF Unusable

(* A write that Raises does not excuse carries usable entries to writers that    *)
(* answer.                                                                      *)
LEMMA UnexcusedWrite ==
    ASSUME DispatchTypeOK, NEW isd \in Present, NEW request \in Request,
           request.kind = "write", NEW paths, paths = DecompressedPaths(request.items),
           \A path \in ToSet(paths) : ~Raises(request, path)
    PROVE  \E F : /\ Carries(request, paths, UsableEntry, F, isd)
                  /\ Len(paths) = Len(request.items)
                  /\ \A k \in 1 .. Len(paths) : ~WriterRaises(paths[k])
<1> DEFINE F == {request.items[k].data : k \in 1 .. Len(request.items)}
           i == isd.fabric_index
<1>1. /\ Len(request.items) \in Nat /\ Len(paths) = Len(request.items)
      /\ DOMAIN paths = 1 .. Len(request.items)
      /\ \A k \in 1 .. Len(request.items) :
            paths[k].data = request.items[k].data /\ paths[k].data \in F
  BY WrittenPaths
<1>2. \A k \in 1 .. Len(request.items) : ~Raises(request, paths[k])
  BY <1>1 DEF ToSet
<1>3. ASSUME NEW k \in 1 .. Len(request.items) PROVE Writes(UsableEntry, paths[k].data, i)
  <2> DEFINE data == paths[k].data
  <2>1. Writes(Entry, data, i)
    BY <1>1, <1>3, WritesEntries, PresentFabric
  <2>2. data \notin Undecodable => \A n \in DOMAIN data : ~Unusable(Stored(data[n], 1))
    BY <1>2 DEF Raises, WritesUnusable
  <2> HIDE DEF data
  <2>3. ASSUME data \notin Undecodable, NEW struct \in ToSet(data), Known(struct)
        PROVE  Stored(struct, i) \in UsableEntry
    <3>1. PICK n \in DOMAIN data : struct = data[n]
      BY <2>3 DEF ToSet
    <3>2. ~Unusable(Stored(struct, i))
      BY <2>2, <2>3, <3>1, AnyFabricAsUsable
    <3>3. Stored(struct, i) \in Entry
      BY <2>1, <2>3 DEF Writes
    <3> QED
      BY <3>2, <3>3 DEF UsableEntry
  <2>4. Writes(UsableEntry, data, i)
    BY <2>1, <2>3 DEF Writes
  <2> QED
    BY <2>4 DEF data
<1>4. \A k \in 1 .. Len(paths) : ~WriterRaises(paths[k])
  BY <1>1, <1>2 DEF Raises
<1> HIDE DEF F
<1>5. Carries(request, paths, UsableEntry, F, isd)
  BY <1>1, <1>3 DEF Carries
<1> QED
  BY <1>1, <1>4, <1>5

(* A request is answered, a write once for every item, unless it is excused.     *)
THEOREM RequestsAreAnsweredHolds == Spec => []RequestsAreAnswered
<1>1. DispatchTypeOK => RequestsAreAnswered
  <2> SUFFICES ASSUME DispatchTypeOK, NEW isd \in Present, NEW request \in Request,
                      NEW items,
                      items = IF request.kind = "write"
                              THEN DecompressedPaths(request.items) ELSE request.items,
                      ~request.chunked,
                      \A item \in ToSet(items) : ~Raises(request, item),
                      \A entry \in ToSet(acl) : ~Unusable(entry)
               PROVE  /\ ~Served(isd, request).silent
                      /\ request.kind = "write" =>
                            Len(Served(isd, request).answers) = Len(request.items)
    BY DEF RequestsAreAnswered
  <2>1. Admits(UsableEntry) /\ Serves(UsableEntry) /\ request.timed \in BOOLEAN
        /\ \A entry \in UsableEntry : ~Unusable(entry)
    BY UsableAdmitted, RequestAssumption DEF UsableEntry
  <2>2. CASE request.kind = "write"
    <3>1. PICK F : /\ Carries(request, items, UsableEntry, F, isd)
                   /\ Len(items) = Len(request.items)
                   /\ \A k \in 1 .. Len(items) : ~WriterRaises(items[k])
      BY <2>2, UnexcusedWrite
    <3>2. /\ ~WriteItems(isd, request).silent
          /\ Len(WriteItems(isd, request).answers) = Len(items)
      BY <2>1, <3>1, WriteItemsKeep
    <3> QED
      BY <2>2, <3>1, <3>2 DEF Served
  <2>3. CASE request.kind # "write"
    <3> DEFINE F == {request.items[k].fields : k \in 1 .. Len(request.items)}
                    \cup {Malformed}
    <3>1. Len(request.items) \in Nat /\ DOMAIN request.items = 1 .. Len(request.items)
      BY RequestAssumption DEF IsList
    <3>2. Malformed \in F
          /\ \A k \in 1 .. Len(request.items) : request.items[k].fields \in F
      OBVIOUS
    <3>3. \A k \in 1 .. Len(request.items) : ~Raises(request, request.items[k])
      BY <2>3, <3>1 DEF ToSet
    <3>4. \A k \in 1 .. Len(request.items) : Answerable(request.items[k])
      <4>1. request.kind = "invoke"
        BY <2>3, RequestAssumption
      <4> QED
        BY <3>3, <4>1 DEF Raises, Answerable
    <3> HIDE DEF F
    <3>5. ~InvokeItems(isd, request).silent
      BY <2>1, <3>1, <3>2, <3>4, InvokeItemsKeep
    <3> QED
      BY <2>3, <3>5 DEF Served
  <2> QED
    BY <2>2, <2>3
<1> QED
  BY <1>1, DispatchTypeCorrect, PTL
-----------------------------------------------------------------------------
(* What of one object and attribute a path of a read gets.                       *)
Shows(list, isd, o, name) ==
    /\ "View" \in Granted(list, isd, o).granted
    /\ name \in Readables(o, name, Granted(list, isd, o).granted)

(* The objects that a path matches.                                        *)
LEMMA ObjectsAre ==
    ASSUME NEW o \in Object
    PROVE  /\ o = <<o[1], o[2]>> /\ o[1] \in Endpoint /\ o[2] \in Servers[o[1]]
           /\ o[1] # None /\ o[2] # None
           /\ o[2] \in DOMAIN Attributes /\ o[2] \in DOMAIN Events
           /\ None \notin DOMAIN Attributes[o[2]] /\ None \notin DOMAIN Events[o[2]]
           /\ Located(o) = "SUCCESS"
<1>1. PICK e \in Endpoint : \E c \in Servers[e] : o = <<e, c>>
  BY DEF Object
<1>0. PICK c \in Servers[e] : o = <<e, c>>
  BY <1>1
<1>2. o[1] = e /\ o[2] = c
  BY <1>0
<1>3. Located(o) = "SUCCESS"
  BY <1>0, <1>2 DEF Located
<1> QED
  BY <1>0, <1>2, <1>3, DispatchAssumption, NoneAssumption DEF Endpoint

LEMMA AttrsAre ==
    ASSUME NEW o \in Object, NEW name, NEW a \in Attrs(o[2], name)
    PROVE  /\ a \in DOMAIN Attributes[o[2]] /\ a # None
           /\ name # None => a = name
BY ObjectsAre DEF Attrs

(* What is readable of an object, one attribute at a time.                 *)
LEMMA ReadablesAre ==
    ASSUME NEW o, NEW name, NEW granted, NEW a
    PROVE  a \in Readables(o, name, granted) <=>
              a \in Attrs(o[2], name) /\ a \in Readables(o, a, granted)
BY DEF Readables, Attrs, Readable, Supported

(* A read, one path: what it gives, and which events it registers.         *)
LEMMA OneRead ==
    ASSUME NEW list, NEW isd, NEW current, NEW o \in Object,
           NEW a \in DOMAIN Attributes[o[2]], a # None,
           NEW path, path.endpoint = o[1], path.cluster = o[2], path.attribute = a
    PROVE  ReadAttribute(list, isd, path, current).data =
              IF path.node = None /\ o \notin current /\ Shows(list, isd, o, a)
              THEN {<<o[1], o[2], a>>} ELSE {}
<1> DEFINE granted == Granted(list, isd, o).granted
<1>1. ~IsWildcard(path)
  BY ObjectsAre DEF IsWildcard
<1>2. <<path.endpoint, path.cluster>> = o
  BY ObjectsAre
<1>3. ReadStatus(granted, o, a) = "SUCCESS" <=> Shows(list, isd, o, a)
  <2>1. a \in Attrs(o[2], a)
    BY DEF Attrs
  <2> QED
    BY <2>1, ObjectsAre DEF ReadStatus, Shows, Readables
<1>4. ConcreteRead(list, isd, path, current).data =
         {<<o[1], o[2], a>> :
            x \in {q \in {o} \ current : ReadStatus(granted, o, a) = "SUCCESS"}}
  BY <1>2 DEF ConcreteRead
<1> HIDE DEF granted
<1>5. ConcreteRead(list, isd, path, current).data =
         IF o \notin current /\ Shows(list, isd, o, a) THEN {<<o[1], o[2], a>>} ELSE {}
  BY <1>3, <1>4
<1>6. CASE path.node = None
  BY <1>1, <1>5, <1>6 DEF ReadAttribute
<1>7. CASE path.node # None
  BY <1>7 DEF ReadAttribute
<1> QED
  BY <1>6, <1>7

(* every triple a path stands for and shows                                     *)
Shown(list, isd, path, current) ==
    UNION {{<<o[1], o[2], a>> : a \in {b \in Attrs(o[2], path.attribute) :
                                         /\ path.node = None /\ o \notin current
                                         /\ Shows(list, isd, o, b)}} :
             o \in Matching(path)}

(* A path with a wildcard shows what Shows says, over all it matches ...   *)
LEMMA WildcardShows ==
    ASSUME NEW list, NEW isd, NEW current, NEW path, path.node = None
    PROVE  WildcardRead(list, isd, path, current).data = Shown(list, isd, path, current)
<1> DEFINE granted(o) == Granted(list, isd, o).granted
           viewed == {o \in Matching(path) \ current : "View" \in granted(o)}
           A(o) == Readables(o, path.attribute, granted(o))
           B(o) == {b \in Attrs(o[2], path.attribute) :
                      /\ path.node = None /\ o \notin current
                      /\ Shows(list, isd, o, b)}
<1>1. WildcardRead(list, isd, path, current).data =
         UNION {{<<o[1], o[2], a>> : a \in A(o)} : o \in viewed}
  <2> DEFINE result == [o \in Matching(path) |-> Granted(list, isd, o)]
             seen == {o \in Matching(path) \ current : "View" \in result[o].granted}
             R(o) == Readables(o, path.attribute, result[o].granted)
  <2>1. WildcardRead(list, isd, path, current).data =
           UNION {{<<o[1], o[2], a>> : a \in R(o)} : o \in seen}
    BY DEF WildcardRead
  <2>2. \A o \in Matching(path) : result[o].granted = granted(o)
    OBVIOUS
  <2>3. seen = viewed
    BY <2>2
  <2>4. \A o \in viewed : R(o) = A(o)
    BY <2>2
  <2> HIDE DEF seen, viewed, R, A
  <2> QED
    BY <2>1, <2>3, <2>4
<1>2. Shown(list, isd, path, current) =
         UNION {{<<o[1], o[2], a>> : a \in B(o)} : o \in Matching(path)}
  BY DEF Shown
<1>3. ASSUME NEW o \in Matching(path), NEW a
      PROVE  (o \in viewed /\ a \in A(o)) <=> a \in B(o)
  <2>1. a \in A(o) <=> a \in Attrs(o[2], path.attribute) /\ a \in Readables(o, a, granted(o))
    BY ReadablesAre
  <2> QED
    BY <2>1 DEF Shows
<1>4. viewed \subseteq Matching(path)
  OBVIOUS
<1> HIDE DEF A, B, viewed
<1> QED
  BY <1>1, <1>2, <1>3, <1>4

(* ... and a concrete one likewise, of the one attribute it names.         *)
LEMMA ConcreteShows ==
    ASSUME NEW list, NEW isd, NEW current, NEW path, path.node = None, ~IsWildcard(path)
    PROVE  ConcreteRead(list, isd, path, current).data = Shown(list, isd, path, current)
<1> DEFINE object == <<path.endpoint, path.cluster>>
           granted == Granted(list, isd, object).granted
           status == ReadStatus(granted, object, path.attribute)
<1>1. ConcreteRead(list, isd, path, current).data =
         {<<object[1], object[2], path.attribute>> :
            x \in {o \in {object} \ current : status = "SUCCESS"}}
  BY DEF ConcreteRead
<1>2. path.endpoint # None /\ path.cluster # None /\ path.attribute # None
  BY DEF IsWildcard
<1>3. Matching(path) = {o \in Object : o = object}
  BY <1>2, ObjectsAre DEF Matching
<1>4. CASE object \in Object /\ path.attribute \in DOMAIN Attributes[object[2]]
  <2>1. Matching(path) = {object} /\ Attrs(object[2], path.attribute) = {path.attribute}
    BY <1>2, <1>3, <1>4 DEF Attrs
  <2>2. ReadAttribute(list, isd, path, current) = ConcreteRead(list, isd, path, current)
    BY DEF ReadAttribute
  <2>3. object[1] = path.endpoint /\ object[2] = path.cluster
    OBVIOUS
  <2> HIDE DEF object
  <2>4. ReadAttribute(list, isd, path, current).data =
           IF path.node = None /\ object \notin current
              /\ Shows(list, isd, object, path.attribute)
           THEN {<<object[1], object[2], path.attribute>>} ELSE {}
    BY <1>2, <1>4, <2>3, OneRead
  <2>5. Shown(list, isd, path, current) =
           IF object \notin current /\ Shows(list, isd, object, path.attribute)
           THEN {<<object[1], object[2], path.attribute>>} ELSE {}
    BY <2>1 DEF Shown
  <2> QED
    BY <2>2, <2>4, <2>5
<1>5. CASE ~(object \in Object /\ path.attribute \in DOMAIN Attributes[object[2]])
  <2>1. status # "SUCCESS"
    BY <1>5, LocatedObject DEF ReadStatus
  <2>2. Shown(list, isd, path, current) = {}
    BY <1>2, <1>3, <1>5 DEF Shown, Attrs
  <2> QED
    BY <1>1, <2>1, <2>2
<1> QED
  BY <1>4, <1>5

(* A path reads what it shows, and so do the concrete paths it stands for,       *)
(* together.                                                                    *)
At(path, o, name) ==
    [path EXCEPT !.endpoint = o[1], !.cluster = o[2], !.attribute = name]

LEMMA AtIs ==
    ASSUME NEW path, {"node", "endpoint", "cluster", "attribute"} \subseteq DOMAIN path,
           NEW o, NEW name
    PROVE  /\ At(path, o, name).endpoint = o[1] /\ At(path, o, name).cluster = o[2]
           /\ At(path, o, name).attribute = name
           /\ At(path, o, name).node = path.node
BY DEF At

LEMMA ReadShows ==
    ASSUME NEW list, NEW isd, NEW current, NEW path
    PROVE  ReadAttribute(list, isd, path, current).data = Shown(list, isd, path, current)
<1>1. CASE path.node = None /\ IsWildcard(path)
  BY <1>1, WildcardShows DEF ReadAttribute
<1>2. CASE path.node = None /\ ~IsWildcard(path)
  BY <1>2, ConcreteShows DEF ReadAttribute
<1>3. CASE path.node # None
  BY <1>3 DEF ReadAttribute, Shown
<1> QED
  BY <1>1, <1>2, <1>3

(* All the concrete paths that a wildcard stands for, together.            *)
LEMMA ConcretesShow ==
    ASSUME NEW list, NEW isd, NEW current, NEW path,
           {"node", "endpoint", "cluster", "attribute"} \subseteq DOMAIN path
    PROVE  UNION {UNION {ReadAttribute(list, isd, At(path, o, name), current).data :
                           name \in Attrs(o[2], path.attribute)} : o \in Matching(path)}
           = Shown(list, isd, path, current)
<1> DEFINE Seen(o, a) == path.node = None /\ o \notin current /\ Shows(list, isd, o, a)
           R(o, a) == ReadAttribute(list, isd, At(path, o, a), current).data
           N(o) == Attrs(o[2], path.attribute)
<1>1. ASSUME NEW o \in Matching(path), NEW a \in N(o)
      PROVE  R(o, a) = IF Seen(o, a) THEN {<<o[1], o[2], a>>} ELSE {}
  <2>1. o \in Object
    BY DEF Matching
  <2>2. a \in DOMAIN Attributes[o[2]] /\ a # None
    BY <2>1, AttrsAre
  <2>3. PICK q : q = At(path, o, a)
    OBVIOUS
  <2>4. q.endpoint = o[1] /\ q.cluster = o[2] /\ q.attribute = a /\ q.node = path.node
    BY <2>3, AtIs
  <2>5. ReadAttribute(list, isd, q, current).data =
           IF q.node = None /\ o \notin current /\ Shows(list, isd, o, a)
           THEN {<<o[1], o[2], a>>} ELSE {}
    BY <2>1, <2>2, <2>4, OneRead
  <2> QED
    BY <2>3, <2>4, <2>5
<1>2. Shown(list, isd, path, current) =
         UNION {{<<o[1], o[2], a>> : a \in {b \in N(o) : Seen(o, b)}} : o \in Matching(path)}
  BY DEF Shown
<1> HIDE DEF Seen, R, N
<1>3. UNION {UNION {R(o, a) : a \in N(o)} : o \in Matching(path)} =
         UNION {{<<o[1], o[2], a>> : a \in {b \in N(o) : Seen(o, b)}} : o \in Matching(path)}
  BY <1>1
<1> QED
  BY <1>2, <1>3 DEF R, N

LEMMA EventsMatch ==
    ASSUME NEW list, NEW isd, NEW path,
           {"node", "endpoint", "cluster", "attribute"} \subseteq DOMAIN path,
           path.attribute = None
    PROVE  WildcardEvents(list, isd, path) =
           UNION {UNION {ConcreteEvents(list, isd, At(path, o, ev)) :
                           ev \in DOMAIN Events[o[2]]} : o \in Matching(path)}
<1> DEFINE granted(o) == Granted(list, isd, o).granted
           N(o) == DOMAIN Events[o[2]]
           Seen(o, ev) == "View" \in granted(o) /\ Events[o[2]][ev] \in granted(o)
           R(o, ev) == ConcreteEvents(list, isd, At(path, o, ev))
<1>1. ASSUME NEW o \in Matching(path), NEW ev \in N(o)
      PROVE  R(o, ev) = IF Seen(o, ev) THEN {<<o[1], o[2], ev>>} ELSE {}
  <2>1. o \in Object /\ <<o[1], o[2]>> = o
    BY ObjectsAre DEF Matching
  <2>2. PICK q : q = At(path, o, ev)
    OBVIOUS
  <2>3. q.endpoint = o[1] /\ q.cluster = o[2] /\ q.attribute = ev
    BY <2>2, AtIs
  <2>4. ConcreteEvents(list, isd, q) =
           {<<o[1], o[2], ev>> : x \in {y \in {o} \cap Object : Seen(o, ev)}}
    BY <2>1, <2>3 DEF ConcreteEvents
  <2> QED
    BY <2>1, <2>2, <2>4
<1>2. WildcardEvents(list, isd, path) =
         UNION {{<<o[1], o[2], ev>> : ev \in {e \in N(o) : Seen(o, e)}} : o \in Matching(path)}
  BY DEF WildcardEvents
<1> HIDE DEF Seen, R, N
<1>3. UNION {UNION {R(o, ev) : ev \in N(o)} : o \in Matching(path)} =
         UNION {{<<o[1], o[2], ev>> : ev \in {e \in N(o) : Seen(o, e)}} : o \in Matching(path)}
  BY <1>1
<1> QED
  BY <1>2, <1>3 DEF R, N

(* A wildcard reads, and registers events, where the concrete paths would: for   *)
(* every list, session, path list and set of current objects.                  *)
THEOREM ReadsMatchConcreteHolds == Spec => []ReadsMatchConcrete
<1>1. ReadsMatchConcrete
  <2> SUFFICES ASSUME NEW isd \in Present, NEW paths \in ReadPaths, NEW current
               PROVE  LET asked == ToSet(DecompressedPaths(paths))
                          read == ReadRequest(acl, isd, paths, current)
                          Reads(path) ==
                            UNION {UNION {ReadAttribute(acl, isd, At(path, o, name), current).data :
                                            name \in Attrs(o[2], path.attribute)} :
                                     o \in Matching(path)}
                          Registers(path) ==
                            UNION {UNION {ConcreteEvents(acl, isd, At(path, o, ev)) :
                                            ev \in DOMAIN Events[o[2]]} : o \in Matching(path)}
                      IN  /\ ~read.silent => read.data = UNION {Reads(path) : path \in asked}
                          /\ \A path \in asked : path.attribute = None =>
                                WildcardEvents(acl, isd, path) = Registers(path)
    BY DEF ReadsMatchConcrete, At
  <2> DEFINE D == DecompressedPaths(paths)
             Reads(path) ==
                UNION {UNION {ReadAttribute(acl, isd, At(path, o, name), current).data :
                                name \in Attrs(o[2], path.attribute)} : o \in Matching(path)}
             R(path) == ReadAttribute(acl, isd, path, current)
             reads == [n \in DOMAIN paths |-> R(D[n])]
  <2>1. DOMAIN D = DOMAIN paths /\ \A n \in DOMAIN paths : DOMAIN D[n] = DOMAIN paths[n]
    BY DEF DecompressedPaths
  <2> HIDE DEF D
  <2>2. ASSUME NEW n \in DOMAIN paths
        PROVE  {"node", "endpoint", "cluster", "attribute"} \subseteq DOMAIN D[n]
    BY <2>1, ReadAssumption
  <2>3. ASSUME NEW n \in DOMAIN paths PROVE R(D[n]).data = Reads(D[n])
    BY <2>2, ReadShows, ConcretesShow
  <2>4. ReadRequest(acl, isd, paths, current).data =
           UNION {reads[n].data : n \in DOMAIN reads}
    BY DEF ReadRequest, D
  <2> HIDE DEF R, Reads
  <2>5. ReadRequest(acl, isd, paths, current).data = UNION {Reads(path) : path \in ToSet(D)}
    BY <2>1, <2>3, <2>4 DEF ToSet
  <2>6. ASSUME NEW path \in ToSet(D), path.attribute = None
        PROVE  WildcardEvents(acl, isd, path) =
               UNION {UNION {ConcreteEvents(acl, isd, At(path, o, ev)) :
                               ev \in DOMAIN Events[o[2]]} : o \in Matching(path)}
    <3>1. {"node", "endpoint", "cluster", "attribute"} \subseteq DOMAIN path
      BY <2>1, <2>2 DEF ToSet
    <3> QED
      BY <2>6, <3>1, EventsMatch
  <2> QED
    BY <2>5, <2>6 DEF Reads, D
<1> QED
  BY <1>1, PTL
-----------------------------------------------------------------------------
(* What a call changes of a request that is being served.                       *)
Shape == {"acl", "fabrics", "calls", "answers", "silent"}

LEMMA AnswerLeaves ==
    ASSUME NEW m, Shape \subseteq DOMAIN m, NEW status
    PROVE  /\ Answered(m, status).calls = m.calls /\ Silent(m).calls = m.calls
           /\ Answered(m, status).acl = m.acl
           /\ Silent(m).silent
BY DEF Shape, Answered, Silent

LEMMA EffectLeaves ==
    ASSUME NEW m, Shape \subseteq DOMAIN m, NEW name, NEW fields
    PROVE  LET after == Effect(m, name, fields)
           IN  /\ Shape \subseteq DOMAIN after /\ after.calls = m.calls
               /\ name \notin {"add_noc", "remove_fabric"} => after.acl = m.acl
<1>1. CASE name = "add_noc"
  BY <1>1 DEF Shape, Effect, AddNoc
<1>2. CASE name = "remove_fabric"
  BY <1>2 DEF Shape, Effect, RemoveFabric
<1>3. CASE name \notin {"add_noc", "remove_fabric"}
  BY <1>3 DEF Shape, Effect
<1> QED
  BY <1>1, <1>2, <1>3

(* A command is called unless it has no handler or cannot decode its fields.    *)
CallOf(m, e, c, name, fields) ==
    [object |-> <<e, c>>, needs |-> {"Operate", Commands[c][name].privilege},
     timed |-> Commands[c][name].timed, fields |-> fields, list |-> m.acl]
Decodable(c, name, fields) ==
    Commands[c][name].handled /\ ~(Commands[c][name].decodes /\ fields \in Undecodable)

Ran(run, m, e, c, name, fields) ==
    /\ Shape \subseteq DOMAIN run.after
    /\ run.after.calls = IF Decodable(c, name, fields)
                         THEN Append(m.calls, CallOf(m, e, c, name, fields))
                         ELSE m.calls
    /\ ~Commands[c][name].decodes => run.after.acl = m.acl
    /\ ~Commands[c][name].handled => run.kind = None
    /\ Commands[c][name].decodes /\ fields = Broken => run.kind = None

LEMMA RunCalls ==
    ASSUME NEW m, Shape \subseteq DOMAIN m, NEW e, NEW c \in DOMAIN Commands,
           NEW name \in DOMAIN Commands[c], NEW fields, NEW ending
    PROVE  Ran(Run(m, <<e, c>>, name, fields, ending), m, e, c, name, fields)
<1> DEFINE command == Commands[c][name]
           called == Called(m, <<e, c>>, {"Operate", command.privilege}, command.timed, fields)
           run == Run(m, <<e, c>>, name, fields, ending)
<1>1. /\ Shape \subseteq DOMAIN called /\ called.acl = m.acl
      /\ called.calls = Append(m.calls, CallOf(m, e, c, name, fields))
  BY DEF Shape, Called, CallOf
<1>2. run = IF ~command.handled \/ (command.decodes /\ fields = Broken)
            THEN [after |-> m, kind |-> None]
            ELSE IF command.decodes /\ fields = Malformed
            THEN [after |-> m, kind |-> "status"]
            ELSE [after |-> IF ending = "raises before" THEN called
                            ELSE Effect(called, name, fields),
                  kind |-> IF ending # "returns" \/ command.returns = "nothing" THEN None
                           ELSE command.returns]
  BY DEF Run
<1>3. name \in {"add_noc", "remove_fabric"} => command.decodes
  BY DispatchAssumption
<1> HIDE DEF called
<1>4. /\ Shape \subseteq DOMAIN Effect(called, name, fields)
      /\ Effect(called, name, fields).calls = called.calls
      /\ name \notin {"add_noc", "remove_fabric"} =>
            Effect(called, name, fields).acl = called.acl
  BY <1>1, EffectLeaves
<1> HIDE DEF run
<1> DEFINE end == IF ending = "raises before" THEN called ELSE Effect(called, name, fields)
<1>8. /\ Shape \subseteq DOMAIN end /\ end.calls = called.calls
      /\ name \notin {"add_noc", "remove_fabric"} => end.acl = called.acl
  BY <1>1, <1>4
<1> HIDE DEF end
<1>5. CASE ~command.handled \/ (command.decodes /\ fields = Broken)
  <2>1. run = [after |-> m, kind |-> None]
    BY <1>2, <1>5
  <2>2. ~Decodable(c, name, fields)
    BY <1>5 DEF Decodable, Undecodable
  <2>3. Ran(run, m, e, c, name, fields)
    BY <2>1, <2>2 DEF Ran
  <2> QED
    BY <2>3 DEF run
<1>6. CASE command.handled /\ command.decodes /\ fields = Malformed
  <2>1. Malformed # Broken
    BY NoneAssumption
  <2> QED
    BY <1>2, <1>6, <2>1 DEF Ran, Decodable, Undecodable, run
<1>7. CASE command.handled /\ ~(command.decodes /\ fields \in Undecodable)
  <2>1. run.after = end
    BY <1>2, <1>7 DEF Undecodable, end
  <2> QED
    BY <1>1, <1>3, <1>7, <1>8, <2>1 DEF Ran, Decodable, Undecodable, run
<1> QED
  BY <1>5, <1>6, <1>7 DEF Undecodable

(* A concrete invocation, the first item of its request, calls its handler when  *)
(* the session may run the command there and the fields decode.                 *)
May(list, isd, item, timed, e) ==
    LET object == <<e, item.cluster>>
    IN  InvokeStatus(Granted(list, isd, object).granted, object, item.command, timed) = "SUCCESS"
ItemAt(item, e) == [item EXCEPT !.endpoint = e]
Runs(isd, item, timed) ==
    {e \in Endpoint : InvokeConcrete(Serving, isd, ItemAt(item, e), timed).calls # <<>>}

LEMMA RunsAre ==
    ASSUME NEW isd, NEW timed, NEW item,
           {"endpoint", "cluster", "command", "fields"} \subseteq DOMAIN item,
           \A o \in Object : Granted(acl, isd, o).failed = None,
           NEW e \in Endpoint
    PROVE  e \in Runs(isd, item, timed) <=>
              May(acl, isd, item, timed, e) /\ Decodable(item.cluster, item.command, item.fields)
<1> DEFINE c == item.cluster
           name == item.command
           object == <<e, c>>
           result == Granted(acl, isd, object)
           status == InvokeStatus(result.granted, object, name, timed)
           run == Run(Serving, object, name, item.fields, item.ends[e])
           calls == InvokeConcrete(Serving, isd, ItemAt(item, e), timed).calls
<1>1. InvokeConcrete(Serving, isd, ItemAt(item, e), timed) =
         IF result.failed # None THEN Silent(Serving)
         ELSE IF status # "SUCCESS" THEN Answered(Serving, status)
         ELSE IF run.kind = None THEN Silent(run.after)
         ELSE Answered(run.after, run.kind)
  <2>1. PICK q : q = ItemAt(item, e)
    OBVIOUS
  <2>2. /\ q.endpoint = e /\ q.cluster = c /\ q.command = name
        /\ q.fields = item.fields /\ q.ends = item.ends
    BY <2>1 DEF ItemAt
  <2>3. Serving.acl = acl
    BY DEF Serving
  <2>4. InvokeConcrete(Serving, isd, q, timed) =
           IF result.failed # None THEN Silent(Serving)
           ELSE IF status # "SUCCESS" THEN Answered(Serving, status)
           ELSE IF run.kind = None THEN Silent(run.after)
           ELSE Answered(run.after, run.kind)
    BY <2>2, <2>3 DEF InvokeConcrete
  <2> QED
    BY <2>1, <2>4
<1>2. Shape \subseteq DOMAIN Serving /\ Serving.calls = <<>>
  BY DEF Serving, Shape
<1>3. Silent(Serving).calls = <<>> /\ Answered(Serving, status).calls = <<>>
  BY <1>2, AnswerLeaves
<1>4. May(acl, isd, item, timed, e) <=> status = "SUCCESS"
  BY DEF May
<1>5. status = "SUCCESS" => Located(object) = "SUCCESS" /\ name \in DOMAIN Commands[c]
  BY InvokeStatusTells
<1> HIDE DEF status, result
<1>6. CASE status # "SUCCESS"
  <2>1. calls = <<>>
    BY <1>1, <1>3, <1>6
  <2> QED
    BY <1>4, <1>6, <2>1 DEF Runs
<1>7. CASE status = "SUCCESS"
  <2>1. object \in Object /\ c \in DOMAIN Commands
    BY <1>5, <1>7, LocatedObject
  <2>2. result.failed = None
    BY <2>1 DEF result
  <2>3. /\ Shape \subseteq DOMAIN run.after
        /\ run.after.calls = IF Decodable(c, name, item.fields)
                             THEN Append(<<>>, CallOf(Serving, e, c, name, item.fields))
                             ELSE <<>>
    <3>1. PICK m : m = Serving
      OBVIOUS
    <3>2. Shape \subseteq DOMAIN m /\ m.calls = <<>>
      BY <1>2, <3>1
    <3>3. name \in DOMAIN Commands[c]
      BY <1>5, <1>7
    <3>4. PICK fields, ending : fields = item.fields /\ ending = item.ends[e]
      OBVIOUS
    <3> HIDE DEF c, name
    <3>5. Ran(Run(m, <<e, c>>, name, fields, ending), m, e, c, name, fields)
      BY <2>1, <3>2, <3>3, RunCalls
    <3> QED
      BY <3>1, <3>2, <3>4, <3>5 DEF Ran
  <2> HIDE DEF run
  <2>4. calls = run.after.calls
    <3>1. PICK a : a = run.after
      OBVIOUS
    <3>2. \A x : Silent(a).calls = a.calls /\ Answered(a, x).calls = a.calls
      BY <2>3, <3>1, AnswerLeaves
    <3> QED
      BY <1>1, <1>7, <2>2, <3>1, <3>2
  <2>5. calls # <<>> <=> Decodable(c, name, item.fields)
    <3>1. \A x : Append(<<>>, x) # <<>>
      OBVIOUS
    <3> QED
      BY <2>3, <2>4, <3>1
  <2> QED
    BY <1>4, <1>7, <2>5 DEF Runs
<1> QED
  BY <1>6, <1>7

(* One more call, of the next endpoint that runs the command.                   *)
Places(calls) == {calls[k].object[1] : k \in 1 .. Len(calls)}
Below(endpoints, k) == {e \in endpoints : e < k}

LEMMA OneMore ==
    ASSUME NEW C, \A x \in C : x.object[1] \in Nat, NEW calls \in Seq(C), NEW call \in C,
           NEW endpoints \in SUBSET Nat, NEW k \in endpoints,
           InOrder(calls, endpoints), \A n \in 1 .. Len(calls) : calls[n].object[1] < k,
           Places(calls) = Below(endpoints, k), call.object[1] = k
    PROVE  /\ InOrder(Append(calls, call), endpoints)
           /\ Places(Append(calls, call)) = Below(endpoints, k + 1)
<1> DEFINE more == Append(calls, call)
           last == Len(calls) + 1
           At1(n) == more[n].object[1]
<1>1. /\ Len(calls) \in Nat /\ more \in Seq(C)
      /\ DOMAIN calls = 1 .. Len(calls) /\ DOMAIN more = 1 .. last /\ Len(more) = last
      /\ \A n \in 1 .. Len(calls) : more[n] = calls[n]
      /\ more[last] = call
  OBVIOUS
<1> HIDE DEF more
<1>2. /\ \A n \in 1 .. last : At1(n) \in Nat
      /\ \A n \in 1 .. Len(calls) : At1(n) = calls[n].object[1] /\ At1(n) < k
      /\ At1(last) = k
  BY <1>1
<1> HIDE DEF At1
<1>3. Below(endpoints, k + 1) = Below(endpoints, k) \cup {k}
  <2>1. k \in Nat /\ \A e \in Nat : e < k + 1 <=> (e < k \/ e = k)
    OBVIOUS
  <2> QED
    BY <2>1 DEF Below
<1>4. 1 .. last = (1 .. Len(calls)) \cup {last} /\ last \notin 1 .. Len(calls)
  BY <1>1
<1> HIDE DEF last
<1>5. {At1(n) : n \in 1 .. last} = Below(endpoints, k + 1)
  <2>1. {At1(n) : n \in 1 .. last} = {At1(n) : n \in 1 .. Len(calls)} \cup {At1(last)}
    BY <1>4
  <2>2. {At1(n) : n \in 1 .. Len(calls)} = Places(calls)
    BY <1>2 DEF Places
  <2> QED
    BY <1>2, <1>3, <2>1, <2>2
<1>6. ASSUME NEW n \in 1 .. last
      PROVE  {At1(j) : j \in 1 .. n} = {e \in endpoints : e <= At1(n)}
  <2>1. CASE n = last
    <3>1. {e \in endpoints : e <= k} = Below(endpoints, k + 1)
      BY DEF Below
    <3> QED
      BY <1>2, <1>5, <2>1, <3>1
  <2>2. CASE n \in 1 .. Len(calls)
    <3>1. {calls[j].object[1] : j \in 1 .. n} = {e \in endpoints : e <= calls[n].object[1]}
      BY <1>1, <2>2 DEF InOrder
    <3>2. 1 .. n \subseteq 1 .. Len(calls)
      BY <1>1, <2>2
    <3>3. {At1(j) : j \in 1 .. n} = {calls[j].object[1] : j \in 1 .. n}
      BY <1>2, <3>2
    <3> QED
      BY <1>2, <2>2, <3>1, <3>3
  <2> QED
    BY <1>4, <2>1, <2>2
<1>7. ASSUME NEW n \in 1 .. last, NEW j \in 1 .. last, j < n PROVE At1(j) < At1(n)
  <2>1. j \in 1 .. Len(calls)
    BY <1>1, <1>4, <1>7
  <2>2. CASE n = last
    BY <1>2, <2>1, <2>2
  <2>3. CASE n \in 1 .. Len(calls)
    <3>1. calls[j].object[1] < calls[n].object[1]
      BY <1>1, <1>7, <2>1, <2>3 DEF InOrder
    <3> QED
      BY <1>2, <2>1, <2>3, <3>1
  <2> QED
    BY <1>4, <2>2, <2>3
<1>8. InOrder(more, endpoints)
  BY <1>1, <1>6, <1>7 DEF InOrder, At1
<1>9. Places(more) = Below(endpoints, k + 1)
  BY <1>1, <1>5 DEF Places, At1
<1> QED
  BY <1>8, <1>9 DEF more

(* How far a walk that visited the endpoints below k has followed the concrete  *)
(* invocations: to the end, unless it ended itself, or what it has left of the  *)
(* fields cannot be decoded.                                                    *)
Decodes(item) == Commands[item.cluster][item.command].decodes
FollowsCalls(calls, item, k, endpoints) ==
    /\ InOrder(calls, endpoints)
    /\ \A n \in 1 .. Len(calls) :
          /\ calls[n].object[1] < k /\ calls[n].object[2] = item.cluster
          /\ Decodes(item) => calls[n].fields = item.fields
Follows(w, item, k, endpoints) ==
    /\ FollowsCalls(w.m.calls, item, k, endpoints)
    /\ \/ w.m.silent
       \/ Decodes(item) /\ w.fields = Malformed
       \/ /\ w.m.acl = acl /\ Places(w.m.calls) = Below(endpoints, k)
          /\ Decodes(item) => w.fields = item.fields

LEMMA EndpointsAre ==
    /\ Max(Endpoint) \in Nat /\ Endpoint = 0 .. Max(Endpoint)
    /\ Endpoint \subseteq Nat
<1>1. Max(Endpoint) \in Nat /\ Endpoint = 0 .. Max(Endpoint)
  BY DispatchAssumption, Zenon DEF Endpoint
<1> HIDE DEF Endpoint
<1>2. PICK n : n \in Nat /\ Endpoint = 0 .. n
  BY <1>1
<1> QED
  BY <1>1, <1>2

LEMMA CallPlaces ==
    ASSUME NEW F, NEW x \in Call(F)
    PROVE  x.object[1] \in Nat
<1>1. x.object \in Object
  BY DEF Call
<1>2. x.object[1] \in Endpoint
  BY <1>1, ObjectsAre
<1> QED
  BY <1>2, EndpointsAre

(* Passing over an endpoint where the command does not run.                     *)
LEMMA NoneThere ==
    ASSUME NEW F, NEW w, w.m.calls \in Seq(Call(F)), NEW item,
           NEW endpoints \in SUBSET Nat, NEW k \in Nat, Follows(w, item, k, endpoints),
           \/ w.m.silent \/ (Decodes(item) /\ w.fields = Malformed)
           \/ k \notin endpoints
    PROVE  Follows(w, item, k + 1, endpoints)
<1>1. \A n \in 1 .. Len(w.m.calls) : w.m.calls[n].object[1] \in Nat
  BY CallPlaces
<1>2. FollowsCalls(w.m.calls, item, k + 1, endpoints)
  BY <1>1 DEF Follows, FollowsCalls
<1>3. k \notin endpoints => Below(endpoints, k + 1) = Below(endpoints, k)
  <2>1. \A e \in Nat : e < k + 1 <=> (e < k \/ e = k)
    OBVIOUS
  <2> QED
    BY <2>1 DEF Below
<1> QED
  BY <1>2, <1>3 DEF Follows

(* One endpoint of the walk.                                                    *)
LEMMA FollowsAt ==
    ASSUME NEW F, Malformed \in F, NEW isd, NEW timed \in BOOLEAN,
           NEW w \in Walk(Entry, F, isd, timed), NEW item,
           {"endpoint", "cluster", "command", "fields"} \subseteq DOMAIN item,
           \A o \in Object : Granted(acl, isd, o).failed = None,
           NEW k \in Endpoint, Follows(w, item, k, Runs(isd, item, timed))
    PROVE  Follows(InvokeAt(w, isd, item, timed, k), item, k + 1, Runs(isd, item, timed))
<1> DEFINE c == item.cluster
           name == item.command
           object == <<k, c>>
           result == Granted(w.m.acl, isd, object)
           status == InvokeStatus(result.granted, object, name, timed)
           run == Run(w.m, object, name, w.fields, item.ends[k])
           after == InvokeAt(w, isd, item, timed, k)
           endpoints == Runs(isd, item, timed)
           call == CallOf(w.m, k, c, name, w.fields)
<1>1. after =
         IF w.m.silent \/ Located(object) # "SUCCESS" THEN w
         ELSE IF result.failed # None THEN [w EXCEPT !.m = Silent(w.m)]
         ELSE IF status # "SUCCESS" THEN w
         ELSE IF run.kind \in {None, "pair"} THEN [w EXCEPT !.m = Silent(run.after)]
         ELSE [m |-> Answered(run.after, run.kind), fields |-> Malformed]
  BY DEF InvokeAt
<1>2. /\ w.m.calls \in Seq(Call(F)) /\ Shape \subseteq DOMAIN w.m /\ w.fields \in F
      /\ "m" \in DOMAIN w /\ w.m.acl \in Seq(Entry)
      /\ w.m \in Good(Entry, F, isd, timed)
  BY DEF Walk, Good, Machine, Shape
<1>3. endpoints \in SUBSET Nat /\ k \in Nat
  BY EndpointsAre DEF Runs
<1>4. status = "SUCCESS" => Located(object) = "SUCCESS" /\ name \in DOMAIN Commands[c]
  BY InvokeStatusTells
<1>5. k \in endpoints <=> May(acl, isd, item, timed, k) /\ Decodable(c, name, item.fields)
  BY RunsAre
<1>6. w.m.acl = acl => (May(acl, isd, item, timed, k) <=> status = "SUCCESS")
  BY DEF May
<1>7. May(acl, isd, item, timed, k) => Located(object) = "SUCCESS"
  BY InvokeStatusTells DEF May
<1> HIDE DEF result, status, after, endpoints, run, call
<1>8. FollowsCalls(w.m.calls, item, k, endpoints)
      /\ \/ w.m.silent \/ (Decodes(item) /\ w.fields = Malformed)
         \/ w.m.acl = acl
  BY DEF Follows, endpoints
<1>9. FollowsCalls(w.m.calls, item, k + 1, endpoints)
  <2>1. \A n \in 1 .. Len(w.m.calls) : w.m.calls[n].object[1] \in Nat
    BY <1>2, CallPlaces
  <2> QED
    BY <1>3, <1>8, <2>1 DEF FollowsCalls
<1>10. CASE \/ w.m.silent \/ Located(object) # "SUCCESS"
            \/ (result.failed = None /\ status # "SUCCESS")
  <2>1. after = w
    BY <1>1, <1>10
  <2>2. w.m.silent \/ (Decodes(item) /\ w.fields = Malformed) \/ k \notin endpoints
    BY <1>5, <1>6, <1>7, <1>8, <1>10
  <2>3. Follows(w, item, k + 1, endpoints)
    BY <1>2, <1>3, <2>2, NoneThere DEF endpoints
  <2> QED
    BY <2>1, <2>3 DEF after, endpoints
<1>11. CASE ~w.m.silent /\ Located(object) = "SUCCESS" /\ result.failed # None
  <2>1. after.m = Silent(w.m)
    BY <1>1, <1>2, <1>11
  <2>2. after.m.silent /\ after.m.calls = w.m.calls
    <3>1. Silent(w.m).silent /\ Silent(w.m).calls = w.m.calls
      BY <1>2, AnswerLeaves
    <3> QED
      BY <2>1, <3>1
  <2> QED
    BY <1>9, <2>2 DEF Follows, after, endpoints
<1>12. CASE ~w.m.silent /\ result.failed = None /\ status = "SUCCESS"
  <2>1. object \in Object /\ c \in DOMAIN Commands /\ name \in DOMAIN Commands[c]
    BY <1>4, <1>12, LocatedObject
  <2>2. Ran(run, w.m, k, c, name, w.fields)
    <3>1. PICK m, fields, ending :
             m = w.m /\ fields = w.fields /\ ending = item.ends[k]
      OBVIOUS
    <3>2. Shape \subseteq DOMAIN m
      BY <1>2, <3>1
    <3> HIDE DEF c, name
    <3>3. Ran(Run(m, <<k, c>>, name, fields, ending), m, k, c, name, fields)
      BY <2>1, <3>2, RunCalls
    <3> QED
      BY <3>1, <3>3 DEF run
  <2>3. /\ after.m.calls = run.after.calls
        /\ \/ after.m.silent
           \/ /\ after.fields = Malformed /\ after.m.acl = run.after.acl
              /\ run.kind # None
    <3>1. PICK a : a = run.after
      OBVIOUS
    <3>2. Shape \subseteq DOMAIN a
      BY <2>2, <3>1 DEF Ran
    <3>3. \A x : /\ Silent(a).calls = a.calls /\ Answered(a, x).calls = a.calls
                 /\ Silent(a).silent /\ Answered(a, x).acl = a.acl
      BY <3>2, AnswerLeaves
    <3>4. \/ after = [w EXCEPT !.m = Silent(a)]
          \/ after = [m |-> Answered(a, run.kind), fields |-> Malformed] /\ run.kind # None
      BY <1>1, <1>4, <1>12, <3>1
    <3> QED
      BY <1>2, <3>1, <3>3, <3>4
  <2>4. CASE ~Decodable(c, name, w.fields)
    <3>1. after.m.calls = w.m.calls
      BY <2>2, <2>3, <2>4 DEF Ran
    <3>2. after.m.silent \/ (Decodes(item) /\ after.fields = Malformed)
      BY <2>2, <2>3, <2>4 DEF Ran, Decodable, Decodes, Undecodable
    <3> QED
      BY <1>9, <3>1, <3>2 DEF Follows, after, endpoints
  <2>5. CASE Decodable(c, name, w.fields)
    <3>1. /\ after.m.calls = Append(w.m.calls, call)
          /\ ~Decodes(item) => run.after.acl = w.m.acl
      BY <2>2, <2>3, <2>5 DEF Ran, call, Decodes
    <3>2. call.object = object /\ call.fields = w.fields
      BY DEF call, CallOf
    <3>3. /\ w.m.acl = acl /\ Places(w.m.calls) = Below(endpoints, k)
          /\ Decodes(item) => w.fields = item.fields
      <4>1. ~(Decodes(item) /\ w.fields = Malformed)
        BY <2>5 DEF Decodable, Decodes, Undecodable
      <4> QED
        BY <1>12, <4>1 DEF Follows, endpoints
    <3>4. k \in endpoints
      <4>1. Decodable(c, name, item.fields)
        BY <2>5, <3>3 DEF Decodable, Decodes
      <4> QED
        BY <1>5, <1>6, <1>12, <3>3, <4>1
    <3>5. InOrder(after.m.calls, endpoints) /\ Places(after.m.calls) = Below(endpoints, k + 1)
      <4> DEFINE C == Call(F) \cup {call}
      <4>1. \A x \in C : x.object[1] \in Nat
        BY <1>3, <3>2, CallPlaces
      <4>2. w.m.calls \in Seq(C) /\ call \in C /\ call.object[1] = k
        BY <1>2, <3>2
      <4>3. /\ InOrder(w.m.calls, endpoints)
            /\ \A n \in 1 .. Len(w.m.calls) : w.m.calls[n].object[1] < k
        BY <1>8 DEF FollowsCalls
      <4>4. PICK calls : calls = w.m.calls
        OBVIOUS
      <4> HIDE DEF C
      <4>5. /\ InOrder(Append(calls, call), endpoints)
            /\ Places(Append(calls, call)) = Below(endpoints, k + 1)
        BY <1>3, <3>3, <3>4, <4>1, <4>2, <4>3, <4>4, OneMore
      <4> QED
        BY <3>1, <4>4, <4>5
    <3>6. FollowsCalls(after.m.calls, item, k + 1, endpoints)
      <4>1. PICK calls : calls = w.m.calls
        OBVIOUS
      <4>2. calls \in Seq(Call(F))
        BY <1>2, <4>1
      <4>3. ASSUME NEW n \in 1 .. Len(Append(calls, call))
            PROVE  /\ Append(calls, call)[n].object[1] < k + 1
                   /\ Append(calls, call)[n].object[2] = c
                   /\ Decodes(item) => Append(calls, call)[n].fields = item.fields
        <5>1. CASE n = Len(calls) + 1
          <6>1. Append(calls, call)[n] = call
            BY <4>2, <5>1
          <6> QED
            BY <1>3, <3>2, <3>3, <6>1
        <5>2. CASE n \in 1 .. Len(calls)
          <6>1. Append(calls, call)[n] = calls[n]
            BY <4>2, <5>2
          <6>2. /\ calls[n].object[1] < k + 1 /\ calls[n].object[2] = c
                /\ Decodes(item) => calls[n].fields = item.fields
            BY <1>9, <4>1, <5>2 DEF FollowsCalls
          <6> QED
            BY <6>1, <6>2
        <5> QED
          BY <4>2, <5>1, <5>2
      <4> QED
        BY <3>1, <3>5, <4>1, <4>3 DEF FollowsCalls
    <3>7. \/ after.m.silent \/ (Decodes(item) /\ after.fields = Malformed)
          \/ ~Decodes(item) /\ after.m.acl = acl
      BY <2>3, <3>1, <3>3
    <3> QED
      BY <3>5, <3>6, <3>7 DEF Follows, after, endpoints
  <2> QED
    BY <2>4, <2>5
<1> QED
  BY <1>4, <1>10, <1>11, <1>12

(* A wildcard invocation calls the handlers that the concrete ones would, in     *)
(* the order of the endpoints and without passing one over.                    *)
LEMMA CallsMatch ==
    ASSUME DispatchTypeOK, NEW isd, NEW timed \in BOOLEAN, NEW item,
           {"endpoint", "cluster", "command", "fields"} \subseteq DOMAIN item,
           \A o \in Object : Granted(acl, isd, o).failed = None
    PROVE  /\ InvokeWildcard(Serving, isd, item, timed).calls \in
                 Seq(Call({item.fields, Malformed}))
           /\ FollowsCalls(InvokeWildcard(Serving, isd, item, timed).calls, item,
                           Max(Endpoint) + 1, Runs(isd, item, timed))
<1> DEFINE F == {item.fields, Malformed}
           n == Max(Endpoint) + 1
           endpoints == Runs(isd, item, timed)
<1>1. Serving \in Good(Entry, F, isd, timed)
  BY ServingIsGood DEF DispatchTypeOK, Serves
<1>2. PICK w : Walked(w, Walk(Entry, F, isd, timed), Serving, isd, item, timed)
  BY <1>1, EntriesAdmitted, WildcardWalks
<1>3. n \in Nat /\ 0 .. n - 1 = Endpoint /\ endpoints \in SUBSET Nat
  BY EndpointsAre DEF Runs
<1>4. /\ w[0].m = Serving /\ w[0].fields = item.fields
      /\ InvokeWildcard(Serving, isd, item, timed) = w[n].m
  BY <1>2 DEF Walked
<1>5. \A k \in 0 .. n : w[k] \in Walk(Entry, F, isd, timed)
  BY <1>2 DEF Walked
<1>6. \A k \in 0 .. n - 1 : k + 1 \in 0 .. n /\ w[k + 1] = InvokeAt(w[k], isd, item, timed, k)
  <2>1. \A k \in 0 .. Max(Endpoint) : w[k + 1] = InvokeAt(w[k], isd, item, timed, k)
    BY <1>2 DEF Walked
  <2>2. 0 .. Max(Endpoint) = 0 .. n - 1
    BY EndpointsAre
  <2> HIDE DEF n
  <2>3. \A k \in 0 .. n - 1 : k + 1 \in 0 .. n
    BY <1>3
  <2> QED
    BY <2>1, <2>2, <2>3, Zenon
<1> HIDE DEF n, endpoints, F
<1> DEFINE T == {k \in 0 .. n : Follows(w[k], item, k, endpoints)}
<1>7. 0 \in T
  <2>1. Serving.calls = <<>> /\ Serving.acl = acl
    BY DEF Serving
  <2>2. Places(<<>>) = {} /\ Below(endpoints, 0) = {}
    <3>1. \A e \in endpoints : ~(e < 0)
      BY <1>3
    <3> QED
      BY <3>1 DEF Places, Below
  <2>3. FollowsCalls(<<>>, item, 0, endpoints)
    BY DEF FollowsCalls, InOrder
  <2>4. Follows(w[0], item, 0, endpoints)
    BY <1>4, <2>1, <2>2, <2>3 DEF Follows
  <2> QED
    BY <1>3, <2>4
<1>8. ASSUME NEW k \in 0 .. n - 1, k \in T PROVE k + 1 \in T
  <2>1. k \in Endpoint /\ k \in 0 .. n /\ Follows(w[k], item, k, endpoints)
    BY <1>3, <1>8
  <2>2. w[k] \in Walk(Entry, F, isd, timed) /\ Malformed \in F
    BY <1>5, <2>1 DEF F
  <2>3. Follows(InvokeAt(w[k], isd, item, timed, k), item, k + 1, endpoints)
    BY <2>1, <2>2, FollowsAt DEF endpoints
  <2> QED
    BY <1>6, <2>3
<1> HIDE DEF T
<1>9. \A k \in 0 .. n : k \in T
  BY <1>3, <1>7, <1>8, Upwards
<1>10. Follows(w[n], item, n, endpoints) /\ w[n] \in Walk(Entry, F, isd, timed)
  BY <1>3, <1>5, <1>9 DEF T
<1>11. w[n].m.calls \in Seq(Call(F))
  BY <1>10 DEF Walk, Good, Machine
<1> QED
  BY <1>4, <1>10, <1>11 DEF Follows, F, n, endpoints

(* For every list, session and item without an endpoint, whatever the handlers    *)
(* leave on the way.                                                           *)
THEOREM CallsMatchConcreteHolds == Spec => []CallsMatchConcrete
<1>1. DispatchTypeOK => CallsMatchConcrete
  <2> SUFFICES ASSUME DispatchTypeOK, NEW isd \in Present,
                      NEW request \in Request, request.kind = "invoke",
                      NEW item \in ToSet(request.items),
                      \A o \in Object : Granted(acl, isd, o).failed = None
               PROVE  /\ InOrder(InvokeWildcard(Serving, isd, item, request.timed).calls,
                                 Runs(isd, item, request.timed))
                      /\ \A call \in ToSet(InvokeWildcard(Serving, isd, item,
                                                         request.timed).calls) :
                            /\ call.object[2] = item.cluster
                            /\ Decodes(item) => call.fields = item.fields
    BY DEF CallsMatchConcrete, Runs, ItemAt, Decodes
  <2>1. /\ request.timed \in BOOLEAN
        /\ {"endpoint", "cluster", "command", "fields"} \subseteq DOMAIN item
    BY RequestAssumption
  <2>2. PICK calls : calls = InvokeWildcard(Serving, isd, item, request.timed).calls
    OBVIOUS
  <2>3. /\ calls \in Seq(Call({item.fields, Malformed}))
        /\ FollowsCalls(calls, item, Max(Endpoint) + 1, Runs(isd, item, request.timed))
    BY <2>1, <2>2, CallsMatch
  <2>4. \A call \in ToSet(calls) : \E n \in 1 .. Len(calls) : call = calls[n]
    BY <2>3 DEF ToSet
  <2> QED
    BY <2>2, <2>3, <2>4 DEF FollowsCalls
<1> QED
  BY <1>1, DispatchTypeCorrect, PTL

(* A wildcard does what the concrete paths it stands for would, and nothing that *)
(* those would not.                                                             *)
THEOREM WildcardsMatchConcreteHolds == Spec => []WildcardsMatchConcrete
BY ReadsMatchConcreteHolds, CallsMatchConcreteHolds, PTL DEF WildcardsMatchConcrete
=============================================================================
