------------------------------ MODULE Mapping ------------------------------
(***************************************************************************)
(* From a graph to mapped partitions: the graph is cut into stages; the    *)
(* endpoints of each stage are partitioned, and those of a part that does  *)
(* not map are partitioned again, more finely; then the parts of the stage *)
(* are merged as long as the result maps.  The hypergraph partitioner is   *)
(* external: it may return any partition into parts that are not empty.    *)
(*                                                                         *)
(* This loop is correct whatever the algorithms it calls compute, so these *)
(* are parameters.  Staging has the cutting, Boomerang the mapping.        *)
(***************************************************************************)
EXTENDS Integers, Sequences, FiniteSets, Functions

CONSTANTS
  Circuits,   \* [aig, endpoints, splits, degrad, file]: whether parts are read
  Division,   \* 600: the endpoints of a part, before they are halved
  MaxTrials,  \* 20: merges tried in vain
  Stride,     \* 4: merges tried together at first
  StagesOf(_),          \* of a circuit: [inputs, pins, ends], or <<>> if an assertion fails
  MapPart(_, _, _),     \* of a circuit's stage, some endpoint groups: [fits, stages]
  ConeSize(_, _, _),    \* of a circuit's stage, some endpoint groups: pins they need
  Hypergraph(_, _, _)   \* of a circuit's stage, some endpoint groups

(* A stage has the pins it stages for later ones and the endpoints of the  *)
(* graph it serves; it numbers them in this order.                         *)
Stage == [inputs : SUBSET Nat, pins : Seq(Nat), ends : Seq(Nat)]
Group(staged) == 1 .. Len(staged.pins) + Len(staged.ends)

ASSUME MappingAssumption ==
  /\ Division \in Nat /\ MaxTrials \in Nat /\ Stride \in Nat \ {0}
  /\ \A c \in Circuits : c.degrad \in Nat /\ StagesOf(c) \in Seq(Stage)

(* Stages are counted, of whichever groups a part is made.                 *)
ASSUME CountAssumption ==
  \A c \in Circuits : \A staged \in Range(StagesOf(c)) :
    \A n \in 0 .. Cardinality(Group(staged)) : \A indices \in [1 .. n -> Group(staged)] :
      IsInjective(indices) => MapPart(c, staged, indices).stages \in Nat

VARIABLES
  circuit,
  phase,       \* "split", "cut", "merge", "done"; "empty" and "unmappable"
               \* are panics, "refused" a result None
  stageds,     \* the stages
  at,          \* the stage being mapped
  unrealized,  \* its endpoint groups without a part
  division, edges, good,
  parts, part, blacklist, self, most, effective,  \* process_partitions
  result       \* the parts of each stage

merging == <<parts, part, blacklist, self, most, effective>>
vars == <<circuit, phase, stageds, at, unrealized, division, edges, good, merging, result>>

Init ==
  /\ circuit \in Circuits
  /\ phase = "split" /\ stageds = <<>>
  /\ at = 1 /\ unrealized = <<>> /\ division = Division /\ edges = <<>> /\ good = <<>>
  /\ parts = <<>> /\ part = 1 /\ blacklist = {} /\ self = <<>> /\ most = 0 /\ effective = <<>>
  /\ result = <<>>

(* A set as a sequence, by ascending rank.                                 *)
Sorted(S, rank) ==
  [i \in 1 .. Cardinality(S) |->
     CHOOSE x \in S : Cardinality({y \in S : rank[y] < rank[x]}) = i - 1]
InOrder(S) == Sorted(S, [x \in S |-> x])

Largest(S) == CHOOSE x \in S : \A y \in S : y <= x

----------------------------------------------------------------------------
StartCut(staged) ==
  /\ unrealized' = InOrder(Group(staged))
  /\ division' = Division /\ good' = <<>> /\ edges' = <<>>

(* Cut the circuit, or panic for an assertion.                             *)
Split ==
  /\ phase = "split"
  /\ stageds' = StagesOf(circuit)
  /\ IF stageds' = <<>>
     THEN phase' = "empty" /\ UNCHANGED <<unrealized, division, edges, good>>
     ELSE phase' = "cut" /\ StartCut(stageds'[1])
  /\ UNCHANGED <<circuit, at, merging, result>>

Staged == stageds[at]
Mapped(indices) == MapPart(circuit, Staged, indices)

(* Of the endpoints at some places, those that any partition puts in a part. *)
Gather(indices, assignment, k) ==
  LET places == InOrder({i \in DOMAIN indices : assignment[i] = k})
  IN  [i \in DOMAIN places |-> indices[places[i]]]

Partitionings(n) ==
  {f \in [DOMAIN unrealized -> 1 .. n] : \A k \in 1 .. n : \E i \in DOMAIN f : f[i] = k}

NotHalved == division
Halved == IF division \div 2 > 1 THEN division \div 2 ELSE 1

Unsorted(places, assignment) ==
  LET order == Sorted(places, [i \in places |-> assignment[i] * Len(unrealized) + i])
  IN  [i \in DOMAIN order |-> unrealized[order[i]]]
Resorted(places, assignment) == InOrder({unrealized[i] : i \in places})

Few(indices) == Len(indices) <= 2
Single(indices) == Len(indices) = 1

(* One round: partition what is left into parts of Halved endpoints, keep  *)
(* the parts that map.                                                     *)
PartCount == (Len(unrealized) + Halved - 1) \div Halved

Realize(tried, fitting, assignment) ==
  /\ good' = good \o [i \in 1 .. Cardinality(fitting) |-> tried[InOrder(fitting)[i]]]
  /\ unrealized' = Resorted({i \in DOMAIN unrealized : assignment[i] \notin fitting}, assignment)
  /\ phase' = IF \E k \in DOMAIN tried \ fitting : Single(tried[k]) THEN "unmappable" ELSE phase

Round ==
  /\ phase = "cut" /\ ~circuit.file /\ unrealized # <<>>
  /\ \E assignment \in Partitionings(PartCount) :
       \E tried \in {[k \in 1 .. PartCount |-> Gather(unrealized, assignment, k)]} :
         \E fitting \in {{k \in DOMAIN tried : Mapped(tried[k]).fits}} : Realize(tried, fitting, assignment)
  /\ edges' = Hypergraph(circuit, Staged, unrealized)
  /\ division' = Halved
  /\ UNCHANGED <<circuit, stageds, at, merging, result>>

----------------------------------------------------------------------------
(* process_partitions: map the parts; the largest number of stages limits  *)
(* what a merge may need.                                                  *)
Built(indices) == [ends |-> indices, stages |-> Mapped(indices).stages]

Process(initial) ==
  /\ \E unfit \in {{k \in DOMAIN initial : ~Mapped(initial[k]).fits}} :
       IF initial = <<>> \/ unfit # {}
       THEN phase' = (IF initial = <<>> THEN "empty" ELSE "refused") /\ UNCHANGED merging
       ELSE /\ phase' = "merge"
            /\ parts' = initial /\ part' = 1 /\ blacklist' = {} /\ effective' = <<>>
            /\ most' = Largest({Mapped(initial[k]).stages : k \in DOMAIN initial}) + circuit.degrad
            /\ self' = Built(initial[1])
  /\ UNCHANGED <<circuit, stageds, at, unrealized, division, edges, good, result>>

StartMerging == phase = "cut" /\ unrealized = <<>> /\ Process(good)

(* The other way in: a partition from a file, whose parts are numbered.    *)
ReadParts ==
  /\ phase = "cut" /\ circuit.file /\ unrealized # <<>>
  /\ \E assignment \in [DOMAIN unrealized -> 1 .. 2] :
       Process([k \in 1 .. Largest(Range(assignment)) |-> Gather(unrealized, assignment, k)])

(* The other parts, by the nodes that they add; trials go in strides that  *)
(* double, and stop before a stride that starts too late.                  *)
Others == {j \in part + 1 .. Len(parts) : parts[j] # <<>> /\ j \notin blacklist}
Cone(indices) == ConeSize(circuit, Staged, indices)
Cost(j) ==
  LET joint == Cone(parts[part] \o parts[j])
  IN  <<joint - Largest({Cone(parts[j]), Cone(parts[part])}), joint, j>>
Cheaper(a, b) ==
  \/ a[1] < b[1]
  \/ a[1] = b[1] /\ (a[2] < b[2] \/ (a[2] = b[2] /\ a[3] < b[3]))

TooLate(start) == start > MaxTrials /\ start > Len(parts) \div 8
TrialLimit ==
  LET k == CHOOSE k \in 0 .. MaxTrials + Len(parts) :
             TooLate(Stride * (2^k - 1)) /\ \A l \in 0 .. k - 1 : ~TooLate(Stride * (2^l - 1))
  IN  Stride * (2^k - 1)

Trials ==
  LET costs == {Cost(j) : j \in Others}
  IN  {a \in costs : Cardinality({b \in costs : Cheaper(b, a)}) < TrialLimit}

NotWorse(built) == built.fits /\ built.stages <= most
Acceptable(a) == NotWorse(Mapped(parts[part] \o parts[a[3]]))

Join(ps, i, j) == [ps EXCEPT ![i] = @ \o ps[j]]
Absorb(ps, i, j) == [ps EXCEPT ![i] = @ \o ps[j], ![j] = <<>>]

NextPart == /\ part' = part + 1 /\ blacklist' = {}
            /\ self' = IF part < Len(parts) THEN Built(parts[part + 1]) ELSE <<>>

SkipMerged ==
  /\ phase = "merge" /\ part <= Len(parts) /\ parts[part] = <<>>
  /\ NextPart
  /\ UNCHANGED <<circuit, stageds, phase, at, unrealized, division, edges, good>>
  /\ UNCHANGED <<parts, most, effective, result>>

(* One iteration of the merge loop of a part: the first trial that is      *)
(* acceptable, if any, is merged; otherwise the part is finished.          *)
Merge ==
  /\ phase = "merge" /\ part <= Len(parts) /\ parts[part] # <<>>
  /\ \E trials \in {Trials} :
       \/ /\ \A a \in trials : ~Acceptable(a)
          /\ effective' = Append(effective, self) /\ NextPart /\ UNCHANGED parts
       \/ \E a \in trials :
            /\ Acceptable(a) /\ \A b \in trials : Cheaper(b, a) => ~Acceptable(b)
            /\ parts' = Absorb(parts, part, a[3])
            /\ self' = Built(parts'[part])
            /\ blacklist' = blacklist \cup {b[3] : b \in {b \in trials : Cheaper(b, a)}}
            /\ UNCHANGED <<part, effective>>
  /\ UNCHANGED <<circuit, stageds, phase, at, unrealized, division, edges, good, most, result>>

LongestFirst(ps) ==
  LET order == Sorted(DOMAIN ps, [k \in DOMAIN ps |-> k - Len(ps) * ps[k].stages])
  IN  [k \in DOMAIN ps |-> ps[order[k]]]

FinishStage ==
  /\ phase = "merge" /\ part > Len(parts)
  /\ result' = Append(result, LongestFirst(effective))
  /\ IF at < Len(stageds)
     THEN at' = at + 1 /\ phase' = "cut" /\ StartCut(stageds[at + 1])
     ELSE phase' = "done" /\ UNCHANGED <<at, unrealized, division, edges, good>>
  /\ parts' = <<>> /\ part' = 1 /\ blacklist' = {} /\ self' = <<>> /\ most' = 0 /\ effective' = <<>>
  /\ UNCHANGED <<circuit, stageds>>

Next == Split \/ Round \/ StartMerging \/ ReadParts \/ SkipMerged \/ Merge \/ FinishStage

Spec == Init /\ [][Next]_vars

----------------------------------------------------------------------------
(* Each of the groups is in one list, at one place, and nothing else is.   *)
Shared(lists, groups) ==
  /\ \A k \in DOMAIN lists : IsInjective(lists[k]) /\ Range(lists[k]) \subseteq groups
  /\ \A i, k \in DOMAIN lists : i # k => Range(lists[i]) \cap Range(lists[k]) = {}
  /\ \A g \in groups : \E k \in DOMAIN lists : g \in Range(lists[k])

(* However often it is partitioned again, an endpoint group of the stage   *)
(* is in one part or still to do, never both, and the staged pins stay at  *)
(* the front (the assertion of to_endpoint_subset, staging.rs:77).         *)
RoundsKeepEndpoints ==
  phase = "cut" =>
    /\ Shared(Append(good, unrealized), Group(Staged))
    /\ \A i, k \in DOMAIN unrealized :
         unrealized[k] <= Len(Staged.pins) /\ i < k => unrealized[i] <= Len(Staged.pins)

(* Merging neither loses an endpoint group nor serves one twice: at any    *)
(* time the finished parts, and those still to be merged, share them out.  *)
(* Every part that is kept maps, in the number of stages on record and in  *)
(* no more than the worst part before merging and the degradation allowed; *)
(* the parts of a stage come longest first, as the assembler's masonry     *)
(* expects them (pe.rs:674, 700).                                          *)
EndsOf(ps) == [k \in DOMAIN ps |-> ps[k].ends]
Held(done, ps, from) ==
  [h \in ({"kept"} \X DOMAIN done) \cup ({"left"} \X (from .. Len(ps))) |->
     IF h[1] = "kept" THEN done[h[2]].ends ELSE ps[h[2]]]

MergingKeepsEndpoints ==
  /\ phase = "merge" => Shared(Held(effective, parts, part), Group(Staged))
  /\ phase = "merge" => \A k \in DOMAIN effective :
       /\ Mapped(effective[k].ends).fits
       /\ effective[k] = Built(effective[k].ends) /\ effective[k].stages <= most
  /\ \A k \in DOMAIN result : Shared(EndsOf(result[k]), Group(stageds[k]))
  /\ \A k \in DOMAIN result : \A i, j \in DOMAIN result[k] :
       i < j => result[k][i].stages >= result[k][j].stages

(* The flow stops only for an endpoint that does not map by itself, for a  *)
(* file whose parts do not map, or for cuts without a stage or with one    *)
(* that serves nothing: parts found by the rounds are never refused when   *)
(* they are mapped again.                                                  *)
StopsForAReason ==
  /\ phase = "empty" => stageds = <<>> \/ Group(Staged) = {}
  /\ phase = "unmappable" => \E k \in Range(unrealized) : ~Mapped(<<k>>).fits
  /\ phase = "refused" => circuit.file

(* No round leaves everything as it was, so that the rounds end: it makes  *)
(* the parts smaller, realizes endpoints or stops the flow.  Merging uses  *)
(* up parts.                                                               *)
Merged == {k \in DOMAIN parts : parts[k] = <<>>}
EverGoesOn ==
  [][/\ phase = "cut" /\ unrealized # <<>> /\ at' = at =>
          division' < division \/ Len(unrealized') < Len(unrealized) \/ phase' # "cut"
     /\ phase = "merge" /\ phase' = "merge" =>
          part' > part \/ Cardinality(Merged') > Cardinality(Merged)]_vars
=============================================================================
