------------------------- MODULE PipelineResources --------------------------
(***************************************************************************)
(* The theorems about what Pipeline shares out: the places of the bounded  *)
(* queue, the chance to run, and the room in the index.                    *)
(***************************************************************************)
EXTENDS PipelineProofs

USE Zenon

\* Every non-empty collection of finite sets has a member that contains no other.
LEMMA LeastFiniteSet ==
    ASSUME NEW C, C # {}, \A S \in C : IsFiniteSet(S)
    PROVE  \E S \in C : \A T \in C : T \subseteq S => T = S
<1> DEFINE U == UNION C
<1>1. IsWellFoundedOn(StrictSubsetOrdering(U), FiniteSubsetsOf(U))
  BY FS_StrictSubsetOrderingWellFounded
<1>2. C \subseteq FiniteSubsetsOf(U)
  BY DEF FiniteSubsetsOf
<1>3. PICK S \in C : \A T \in C : ~(<<T, S>> \in StrictSubsetOrdering(U))
  BY <1>1, <1>2, WFMin
<1>4. ASSUME NEW T \in C, T \subseteq S PROVE T = S
  <2>1. <<T, S>> \in (SUBSET U) \X (SUBSET U)
    OBVIOUS
  <2> QED
    BY <1>3, <1>4, <2>1 DEF StrictSubsetOrdering
<1> QED
  BY <1>4

(***************************************************************************)
(* Sums over finite sets.  MapThenSumSet removes one chosen element after  *)
(* the other; Sums(f, S, g) says that g is that recursion.                 *)
(***************************************************************************)
SumOf(f, S) == MapThenSumSet(LAMBDA x : f[x], S)

Pick(S) == CHOOSE x \in S : TRUE

Sums(f, S, g) ==
    g = [s \in SUBSET S |-> IF s = {} THEN 0 ELSE f[Pick(s)] + g[s \ {Pick(s)}]]

\* The recursion has one value at each set, whatever set it was started from.
LEMMA SumsUnique ==
    ASSUME NEW f, NEW S, IsFiniteSet(S), NEW T, IsFiniteSet(T),
           NEW g, Sums(f, S, g), NEW h, Sums(f, T, h)
    PROVE  \A s \in (SUBSET S) \cap (SUBSET T) : g[s] = h[s]
<1> DEFINE C == {s \in (SUBSET S) \cap (SUBSET T) : g[s] # h[s]}
<1>1. SUFFICES ASSUME C # {} PROVE FALSE
  OBVIOUS
<1>2. \A s \in C : IsFiniteSet(s)
  BY FS_Subset
<1>3. PICK s \in C : \A r \in C : r \subseteq s => r = s
  <2> HIDE DEF C
  <2> QED
    BY <1>1, <1>2, LeastFiniteSet, SMT
<1>4. s # {}
  BY DEF Sums
<1>5. Pick(s) \in s
  BY <1>4 DEF Pick
<1>6. g[s \ {Pick(s)}] = h[s \ {Pick(s)}]
  BY <1>3, <1>5, SMT
<1>7. /\ g[s] = f[Pick(s)] + g[s \ {Pick(s)}]
      /\ h[s] = f[Pick(s)] + h[s \ {Pick(s)}]
  BY <1>4 DEF Sums
<1> QED
  BY <1>6, <1>7

\* The same, for a set and a subset of it.
LEMMA SumsAgree ==
    ASSUME NEW f, NEW r, IsFiniteSet(r), NEW q \in SUBSET r, IsFiniteSet(q),
           NEW g, Sums(f, q, g), NEW h, Sums(f, r, h)
    PROVE  g[q] = h[q]
<1>1. q \in (SUBSET q) \cap (SUBSET r)
  OBVIOUS
<1> QED
  BY <1>1, SumsUnique, SMT

\* The recursion is defined on every finite set.
LEMMA SumsExist ==
    ASSUME NEW f, NEW S, IsFiniteSet(S)
    PROVE  \E g : Sums(f, S, g)
<1> DEFINE C == {s \in SUBSET S : ~\E g : Sums(f, s, g)}
<1>1. SUFFICES ASSUME C # {} PROVE FALSE
  OBVIOUS
<1>2. \A s \in SUBSET S : IsFiniteSet(s)
  BY FS_Subset
<1>3. PICK s \in C : \A r \in C : r \subseteq s => r = s
  <2>1. \A r \in C : IsFiniteSet(r)
    BY <1>2
  <2> HIDE DEF C
  <2> QED
    BY <1>1, <2>1, LeastFiniteSet, SMT
<1> DEFINE H(r) == CHOOSE h : Sums(f, r, h)
           g == [r \in SUBSET s |-> IF r = {} THEN 0
                                    ELSE f[Pick(r)] + H(r \ {Pick(r)})[r \ {Pick(r)}]]
<1>4. \A r \in SUBSET s : r # s => Sums(f, r, H(r))
  <2> SUFFICES ASSUME NEW r \in SUBSET s, r # s PROVE Sums(f, r, H(r))
    OBVIOUS
  <2>1. \E h : Sums(f, r, h)
    BY <1>3
  <2> QED
    BY <2>1, Zenon
<1> HIDE DEF H
<1>5. ASSUME NEW r \in SUBSET s, r # s
      PROVE  g[r] = H(r)[r]
  <2>1. Sums(f, r, H(r))
    BY <1>4, <1>5
  <2>2. CASE r = {}
    BY <2>1, <2>2 DEF Sums
  <2>3. CASE r # {}
    <3> DEFINE q == r \ {Pick(r)}
    <3>1. Pick(r) \in r
      BY <2>3 DEF Pick
    <3>2. q \in SUBSET s /\ q # s /\ q \in SUBSET r
      BY <3>1, <1>5
    <3>3. Sums(f, q, H(q))
      BY <3>2, <1>4
    <3>4. IsFiniteSet(q) /\ IsFiniteSet(r)
      BY <3>2, <1>2
    <3>5. H(q)[q] = H(r)[q]
      <4> HIDE DEF q
      <4> QED
        BY <2>1, <3>2, <3>3, <3>4, SumsAgree, SMT
    <3>6. H(r)[r] = f[Pick(r)] + H(r)[q]
      BY <2>1, <2>3 DEF Sums
    <3>7. g[r] = f[Pick(r)] + H(q)[q]
      BY <2>3
    <3> QED
      BY <3>5, <3>6, <3>7
  <2> QED
    BY <2>2, <2>3
<1>6. ASSUME NEW r \in SUBSET s, r # {}
      PROVE  r \ {Pick(r)} \in SUBSET s /\ r \ {Pick(r)} # s
  BY <1>6 DEF Pick
<1>7. Sums(f, s, g)
  <2>1. \A r \in SUBSET s :
           (IF r = {} THEN 0 ELSE f[Pick(r)] + H(r \ {Pick(r)})[r \ {Pick(r)}])
             = IF r = {} THEN 0 ELSE f[Pick(r)] + g[r \ {Pick(r)}]
    BY <1>5, <1>6
  <2> DEFINE e(r) == IF r = {} THEN 0 ELSE f[Pick(r)] + H(r \ {Pick(r)})[r \ {Pick(r)}]
             d(r) == IF r = {} THEN 0 ELSE f[Pick(r)] + g[r \ {Pick(r)}]
  <2>2. [r \in SUBSET s |-> e(r)] = [r \in SUBSET s |-> d(r)]
    <3>1. \A r \in SUBSET s : e(r) = d(r)
      BY <2>1
    <3> HIDE DEF e, d
    <3> QED
      BY <3>1
  <2>3. g = [r \in SUBSET s |-> e(r)]
    OBVIOUS
  <2> HIDE DEF g
  <2> QED
    BY <2>2, <2>3 DEF Sums
<1> QED
  BY <1>3, <1>7

\* A sum is what the recursion yields.
LEMMA SumSolves ==
    ASSUME NEW f, NEW S, IsFiniteSet(S), NEW g, Sums(f, S, g)
    PROVE  SumOf(f, S) = g[S]
<1> DEFINE h == CHOOSE h : Sums(f, S, h)
<1>1. Sums(f, S, h)
  BY Zenon
<1>2. SumOf(f, S) = h[S]
  BY DEF SumOf, MapThenSumSet, MapThenFoldSet, Sums, Pick
<1> HIDE DEF h
<1>3. h[S] = g[S]
  BY <1>1, SumsUnique, SMT
<1> QED
  BY <1>2, <1>3

\* A sum is zero for the empty set, otherwise the picked element's value and the sum of the rest.
LEMMA SumUnfold ==
    ASSUME NEW f, NEW S, IsFiniteSet(S)
    PROVE  /\ S = {} => SumOf(f, S) = 0
           /\ S # {} => SumOf(f, S) = f[Pick(S)] + SumOf(f, S \ {Pick(S)})
<1>1. PICK g : Sums(f, S, g)
  BY SumsExist
<1>2. SumOf(f, S) = g[S]
  BY <1>1, SumSolves
<1>3. CASE S = {}
  BY <1>1, <1>2, <1>3 DEF Sums
<1>4. CASE S # {}
  <2> DEFINE R == S \ {Pick(S)}
  <2>1. g[S] = f[Pick(S)] + g[R]
    BY <1>1, <1>4 DEF Sums
  <2>2. IsFiniteSet(R) /\ R \in SUBSET S
    BY FS_Subset
  <2>3. PICK h : Sums(f, R, h)
    <3> HIDE DEF R
    <3> QED
      BY <2>2, SumsExist
  <2>4. SumOf(f, R) = h[R]
    <3> HIDE DEF R
    <3> QED
      BY <2>2, <2>3, SumSolves
  <2>5. h[R] = g[R]
    <3> HIDE DEF R
    <3> QED
      BY <1>1, <2>2, <2>3, SumsUnique, SMT
  <2> QED
    BY <1>2, <1>4, <2>1, <2>4, <2>5
<1> QED
  BY <1>3, <1>4

\* A sum of integers is an integer, of naturals a natural.
LEMMA SumType ==
    ASSUME NEW f, NEW S, IsFiniteSet(S)
    PROVE  /\ (\A x \in S : f[x] \in Int) => SumOf(f, S) \in Int
           /\ (\A x \in S : f[x] \in Nat) => SumOf(f, S) \in Nat
<1>1. ASSUME NEW N \in {Int, Nat}, \A x \in S : f[x] \in N
      PROVE  SumOf(f, S) \in N
  <2> DEFINE C == {s \in SUBSET S : SumOf(f, s) \notin N}
  <2>1. SUFFICES ASSUME C # {} PROVE FALSE
    OBVIOUS
  <2>2. \A s \in SUBSET S : IsFiniteSet(s)
    BY FS_Subset
  <2>3. PICK s \in C : \A r \in C : r \subseteq s => r = s
    <3>1. \A s \in C : IsFiniteSet(s)
      BY <2>2
    <3> HIDE DEF C
    <3> QED
      BY <2>1, <3>1, LeastFiniteSet, SMT
  <2>4. s # {}
    <3>1. SumOf(f, {}) = 0
      BY FS_EmptySet, SumUnfold
    <3>2. 0 \in N
      BY SMT
    <3> QED
      BY <3>1, <3>2
  <2>5. Pick(s) \in s
    BY <2>4 DEF Pick
  <2>6. SumOf(f, s \ {Pick(s)}) \in N
    BY <2>3, <2>5, SMT
  <2>7. SumOf(f, s) = f[Pick(s)] + SumOf(f, s \ {Pick(s)})
    BY <2>2, <2>4, SumUnfold
  <2>8. f[Pick(s)] \in N
    BY <2>5, <1>1
  <2> QED
    BY <2>3, <2>6, <2>7, <2>8, SMT
<1> QED
  BY <1>1

\* Any element can be taken out of a sum.
LEMMA SumRemove ==
    ASSUME NEW f, NEW S, IsFiniteSet(S), \A x \in S : f[x] \in Int, NEW a \in S
    PROVE  SumOf(f, S) = f[a] + SumOf(f, S \ {a})
<1> DEFINE C == {s \in SUBSET S : \E x \in s : SumOf(f, s) # f[x] + SumOf(f, s \ {x})}
<1>1. SUFFICES ASSUME C # {} PROVE FALSE
  OBVIOUS
<1>2. \A s \in SUBSET S : IsFiniteSet(s)
  BY FS_Subset
<1>3. PICK s \in C : \A r \in C : r \subseteq s => r = s
  <2>1. \A s \in C : IsFiniteSet(s)
    BY <1>2
  <2> HIDE DEF C
  <2> QED
    BY <1>1, <2>1, LeastFiniteSet, SMT
<1>4. PICK x \in s : SumOf(f, s) # f[x] + SumOf(f, s \ {x})
  BY <1>3
<1> DEFINE c == Pick(s)
<1>5. c \in s
  BY DEF Pick
<1>6. SumOf(f, s) = f[c] + SumOf(f, s \ {c})
  BY <1>2, <1>4, SumUnfold
<1> HIDE DEF c
<1>7. c # x
  BY <1>4, <1>6
<1>8. /\ SumOf(f, s \ {c}) = f[x] + SumOf(f, (s \ {c}) \ {x})
      /\ SumOf(f, s \ {x}) = f[c] + SumOf(f, (s \ {x}) \ {c})
  <2>1. s \ {c} \notin C /\ s \ {x} \notin C
    BY <1>3, <1>5
  <2> QED
    BY <2>1, <1>5, <1>7
<1>9. (s \ {c}) \ {x} = (s \ {x}) \ {c}
  OBVIOUS
<1>10. f[x] \in Int /\ f[c] \in Int /\ SumOf(f, (s \ {c}) \ {x}) \in Int
  <2>1. (s \ {c}) \ {x} \in SUBSET S
    OBVIOUS
  <2>2. IsFiniteSet((s \ {c}) \ {x})
    BY <1>2, <2>1
  <2> QED
    BY <1>5, <2>1, <2>2, SumType
<1> QED
  BY <1>4, <1>6, <1>8, <1>9, <1>10, SMT

\* A sum depends on the values at the elements only.
LEMMA SumSame ==
    ASSUME NEW f, NEW g, NEW S, IsFiniteSet(S), \A x \in S : f[x] = g[x]
    PROVE  SumOf(f, S) = SumOf(g, S)
<1> DEFINE C == {s \in SUBSET S : SumOf(f, s) # SumOf(g, s)}
<1>1. SUFFICES ASSUME C # {} PROVE FALSE
  OBVIOUS
<1>2. \A s \in SUBSET S : IsFiniteSet(s)
  BY FS_Subset
<1>3. PICK s \in C : \A r \in C : r \subseteq s => r = s
  <2>1. \A s \in C : IsFiniteSet(s)
    BY <1>2
  <2> HIDE DEF C
  <2> QED
    BY <1>1, <2>1, LeastFiniteSet, SMT
<1>4. s # {}
  BY <1>2, SumUnfold
<1>5. Pick(s) \in s
  BY <1>4 DEF Pick
<1>6. SumOf(f, s \ {Pick(s)}) = SumOf(g, s \ {Pick(s)})
  BY <1>3, <1>5, SMT
<1> QED
  BY <1>2, <1>3, <1>4, <1>5, <1>6, SumUnfold, SMT

\* A sum after one element more.
LEMMA SumAdd ==
    ASSUME NEW f, NEW g, NEW S, IsFiniteSet(S), NEW a, a \notin S,
           \A x \in S : f[x] = g[x] /\ g[x] \in Int, g[a] \in Int
    PROVE  SumOf(g, S \cup {a}) = SumOf(f, S) + g[a]
<1> DEFINE T == S \cup {a}
<1>1. IsFiniteSet(T) /\ T \ {a} = S /\ a \in T /\ \A x \in T : g[x] \in Int
  BY FS_AddElement
<1> HIDE DEF T
<1>2. SumOf(g, T) = g[a] + SumOf(g, S)
  BY <1>1, SumRemove, SMT
<1>3. SumOf(g, S) = SumOf(f, S) /\ SumOf(g, S) \in Int
  BY SumSame, SumType
<1> QED
  BY <1>2, <1>3, SMT DEF T

\* Taking an element away subtracts its summand.
LEMMA SumDrop ==
    ASSUME NEW f, NEW g, NEW S, IsFiniteSet(S), NEW a \in S, NEW T, T = S \ {a},
           \A x \in S : f[x] \in Int, \A x \in T : g[x] = f[x]
    PROVE  SumOf(g, T) = SumOf(f, S) - f[a]
<1>1. IsFiniteSet(T) /\ (\A x \in T : f[x] = g[x] /\ f[x] \in Int) /\ f[a] \in Int
  BY FS_Subset
<1>2. SumOf(f, S) = f[a] + SumOf(f, T)
  BY SumRemove, SMT
<1>3. SumOf(f, T) = SumOf(g, T) /\ SumOf(f, T) \in Int
  BY <1>1, SumSame, SumType, SMT
<1> QED
  BY <1>1, <1>2, <1>3, SMT

(***************************************************************************)
(* The bounded queue.  What an operation waits for follows from its kind,  *)
(* the control request is in the queue exactly while it is active, and it  *)
(* is queued only when no write or flush is pending: so a flush, which     *)
(* takes its place long after it was admitted, always finds one.           *)
(***************************************************************************)
StageOfOp ==
    \A s \in Slots :
        /\ Holds(s, "read") => slots[s].stage = "io"
        /\ Holds(s, "verified") => slots[s].stage \in {"metadata", "value", "inline"}
        /\ Holds(s, "flush") => slots[s].stage \in {"queued", "submitted"}

ControlToken == io[CONTROL] # "idle" <=> control = "active"

ControlAlone == control # "none" /\ ~queue_failed => maintenance /\ ~WritesPending

QueueInv == StageOfOp /\ ControlToken /\ ControlAlone /\ QueueWithinDepth

\* The queue never holds more than the tokens, and a vacancy takes one more request.
LEMMA QueueCount ==
    /\ Depth \in Nat /\ Cardinality(InQueue) \in Nat /\ Cardinality(InQueue') \in Nat
    /\ InQueue' \subseteq InQueue /\ QueueWithinDepth => QueueWithinDepth'
    /\ InQueue' \subseteq Slots => QueueWithinDepth'
    /\ \A t \in Tokens : InQueue' \subseteq InQueue \cup {t} /\ Vacant > 0 => QueueWithinDepth'
<1>1. IsFiniteSet(Slots) /\ IsFiniteSet(Tokens) /\ Depth \in Nat
  BY PipelineAssumption, FS_AddElement, FS_CardinalityType DEF Tokens, Depth
<1>2. /\ IsFiniteSet(InQueue) /\ IsFiniteSet(InQueue')
      /\ Cardinality(InQueue) \in Nat /\ Cardinality(InQueue') \in Nat
  BY <1>1, FS_Subset, FS_CardinalityType DEF InQueue
<1>3. InQueue' \subseteq InQueue /\ QueueWithinDepth => QueueWithinDepth'
  <2>1. InQueue' \subseteq InQueue => Cardinality(InQueue') <= Cardinality(InQueue)
    BY <1>2, FS_Subset
  <2> QED
    BY <1>1, <1>2, <2>1, SMT DEF QueueWithinDepth
<1>4. InQueue' \subseteq Slots => QueueWithinDepth'
  BY <1>1, FS_Subset DEF QueueWithinDepth, Depth
<1>5. ASSUME NEW t \in Tokens, InQueue' \subseteq InQueue \cup {t}, Vacant > 0
      PROVE  QueueWithinDepth'
  <2>1. IsFiniteSet(InQueue \cup {t}) /\ Cardinality(InQueue \cup {t}) <= Cardinality(InQueue) + 1
    <3>1. /\ IsFiniteSet(InQueue \cup {t})
          /\ Cardinality(InQueue \cup {t}) =
                IF t \in InQueue THEN Cardinality(InQueue) ELSE Cardinality(InQueue) + 1
      BY <1>2, FS_AddElement
    <3> QED
      BY <1>2, <3>1, SMT
  <2>2. Cardinality(InQueue') <= Cardinality(InQueue \cup {t})
    BY <1>5, <2>1, FS_Subset
  <2>3. Cardinality(InQueue \cup {t}) \in Nat
    BY <2>1, FS_CardinalityType
  <2> QED
    BY <1>1, <1>2, <1>5, <2>1, <2>2, <2>3, SMT DEF QueueWithinDepth, Vacant
<1> QED
  BY <1>1, <1>2, <1>3, <1>4, <1>5

\* Accepting an operation takes at most one place, which admission found vacant.
LEMMA AcceptQueue ==
    ASSUME Inv, QueueInv, NEW s \in Slots,
           \/ ~maintenance /\ \E frame \in Frames : Write(frame, s)
           \/ ~maintenance /\ Flush(s)
           \/ \E k \in Keys : \/ Read(k, s) \/ ReadEmpty(k, s)
                              \/ \E inline \in BOOLEAN : ReadVerified(k, inline, s)
    PROVE  QueueInv'
<1> USE DEF failVars, ownerVars, indexVars, pollVars, Submit
<1>1. /\ slots \in [Slots -> Pending \cup {None}]
      /\ io \in [Tokens -> {"idle", "busy", "ok", "err"}]
      /\ s \in Tokens /\ CONTROL \in Tokens /\ CONTROL # s
  BY PipelineAssumption DEF Inv, TypeOK, QueueType, Tokens
<1>2. /\ Vacant > (IF maintenance THEN 1 ELSE 0) /\ ~queue_failed
      /\ UNCHANGED <<control, maintenance, queue_failed>>
      /\ io' = io \/ io' = [io EXCEPT ![s] = "busy"]
      /\ ~maintenance \/ UNCHANGED <<writes, flush>>
  BY DEF Write, Flush, Read, ReadEmpty, ReadVerified, Admission, Room
<1>3. /\ \A y \in Slots : y # s => slots'[y] = slots[y]
      /\ slots'[s].op = "read" => slots'[s].stage = "io"
      /\ slots'[s].op = "verified" => slots'[s].stage \in {"metadata", "value", "inline"}
      /\ slots'[s].op = "flush" => slots'[s].stage \in {"queued", "submitted"}
  <2>1. CASE \E frame \in Frames : Write(frame, s)
    BY <1>1, <2>1, SMT DEF Write, TakeSlot
  <2>2. CASE Flush(s)
    BY <1>1, <2>2 DEF Flush, TakeSlot
  <2>3. ASSUME NEW k \in Keys, Read(k, s) \/ ReadEmpty(k, s)
        PROVE  <1>3!:
    <3>1. CASE Read(k, s)
      BY <1>1, <3>1 DEF Read, TakeSlot, ReadOf
    <3>2. CASE ReadEmpty(k, s)
      BY <1>1, <3>2 DEF ReadEmpty, TakeSlot, ReadOf
    <3> QED
      BY <2>3, <3>1, <3>2
  <2>4. ASSUME NEW k \in Keys, NEW inline \in BOOLEAN, ReadVerified(k, inline, s)
        PROVE  <1>3!:
    BY <1>1, <2>4 DEF ReadVerified, TakeSlot, ReadOf
  <2> QED
    BY <2>1, <2>2, <2>3, <2>4
<1>4. StageOfOp'
  BY <1>1, <1>3 DEF QueueInv, StageOfOp, Holds
<1>5. ControlToken'
  BY <1>1, <1>2 DEF QueueInv, ControlToken
<1>6. ControlAlone'
  BY <1>2 DEF QueueInv, ControlAlone, WritesPending
<1>7. QueueWithinDepth'
  <2>1. InQueue' \subseteq InQueue \cup {s}
    BY <1>1, <1>2 DEF InQueue
  <2>2. Vacant > 0
    BY <1>2, QueueCount, SMT DEF Vacant
  <2> QED
    BY <1>1, <2>1, <2>2, QueueCount
<1> QED
  BY <1>4, <1>5, <1>6, <1>7 DEF QueueInv

\* A step that changes no slot and adds no request keeps what the queue relies on, if the
\* control request stays alone.
LEMMA QueueStays ==
    ASSUME Inv, QueueInv, UNCHANGED <<slots, io, control>>, ControlAlone'
    PROVE  QueueInv'
<1>1. StageOfOp' /\ ControlToken'
  BY DEF QueueInv, StageOfOp, ControlToken, Holds
<1>2. QueueWithinDepth'
  BY QueueCount DEF QueueInv, InQueue
<1> QED
  BY <1>1, <1>2 DEF QueueInv

\* What the owner does: it queues a control request only while a job is present and nothing
\* is pending, and ends the job only without one.
LEMMA OwnerQueue ==
    ASSUME Inv, QueueInv, Owner
    PROVE  QueueInv'
<1> USE DEF queueVars, ticketVars, failVars, ownerVars, indexVars, pollVars
<1>1. UNCHANGED <<slots, io, writes, flush, queue_failed>>
  BY DEF Owner, BeginMaintenance, WasteTicket, EndMaintenance, ControlIo, TakeControl, Attach,
         TakeSegment, Restore
<1>2. \/ control' = control
      \/ control # "active" /\ control' # "active"
  BY DEF Owner, BeginMaintenance, WasteTicket, EndMaintenance, ControlIo, TakeControl, Attach,
         TakeSegment, Restore
<1>3. ControlAlone'
  <2>1. CASE ~maintenance
    <3>1. control' = control /\ (maintenance' = maintenance \/ maintenance' = TRUE)
      BY <2>1 DEF Owner, BeginMaintenance, WasteTicket
    <3> QED
      BY <1>1, <2>1, <3>1 DEF QueueInv, ControlAlone, WritesPending
  <2>2. CASE maintenance
    <3>1. \/ UNCHANGED <<control, maintenance>>
          \/ control' = "none"
          \/ control' = control /\ (control = "none" \/ queue_failed)
          \/ ~WritesPending /\ maintenance' = maintenance
      BY <2>2 DEF Owner, EndMaintenance, ControlIo, TakeControl, Attach, TakeSegment, Restore
    <3> QED
      BY <1>1, <2>2, <3>1 DEF QueueInv, ControlAlone, WritesPending
  <2> QED
    BY <2>1, <2>2
<1>4. StageOfOp' /\ ControlToken'
  BY <1>1, <1>2 DEF QueueInv, StageOfOp, ControlToken, Holds
<1>5. QueueWithinDepth'
  BY <1>1, QueueCount DEF QueueInv, InQueue
<1> QED
  BY <1>3, <1>4, <1>5 DEF QueueInv

\* The steps of poll that only move to its next phase, or find that the queue has failed.
LEMMA PollQueue ==
    ASSUME Inv, QueueInv,
           \/ RetireEnd \/ FlushSkip \/ ReadsEnd \/ QueuePoll \/ ReapEnd \/ PollBegin
           \/ QueueError \/ RetireFailedEnd
    PROVE  QueueInv'
<1> USE DEF queueVars, ticketVars, failVars, ownerVars, indexVars
<1>1. /\ UNCHANGED <<slots, io, control, maintenance>>
      /\ UNCHANGED <<writes, flush>> \/ (writes' = <<>> /\ flush' = None)
      /\ queue_failed' \/ queue_failed' = queue_failed
  BY
     DEF RetireEnd, FlushSkip, ReadsEnd, QueuePoll, ReapEnd, PollBegin, QueueError, RetireFailedEnd
<1>2. ControlAlone'
  BY <1>1, SMT DEF QueueInv, ControlAlone, WritesPending
<1> QED
  BY <1>1, <1>2, QueueStays

\* A completion frees a slot and perhaps a place.
LEMMA CompleteQueue ==
    ASSUME Inv, QueueInv,
           \/ RetireWrite \/ FlushFinish \/ CompleteEmptyRead
           \/ \E s \in Slots : \/ ReapFlush(s) \/ RetireFailed(s)
                               \/ \E result \in {"ok", "err"} : ReapRead(s, result)
    PROVE  QueueInv'
<1> USE DEF failVars, ownerVars, indexVars
<1>1. /\ slots \in [Slots -> Pending \cup {None}]
      /\ io \in [Tokens -> {"idle", "busy", "ok", "err"}]
      /\ CONTROL \in Tokens /\ CONTROL \notin Slots /\ writes \in Seq(Slots)
  BY PipelineAssumption DEF Inv, TypeOK, QueueType, Tokens
<1>2. /\ UNCHANGED <<control, maintenance, queue_failed>>
      /\ slots' = slots \/ \E s : slots' = [slots EXCEPT ![s] = None]
      /\ io' = io \/ \E s \in Slots : io' = [io EXCEPT ![s] = "idle"]
  BY DEF RetireWrite, FlushFinish, CompleteEmptyRead, ReapFlush, RetireFailed, ReapRead
<1>3. \/ UNCHANGED <<writes, flush>> \/ (writes # <<>> /\ flush' = flush)
      \/ (writes' = writes /\ flush' = None)
  BY DEF RetireWrite, FlushFinish, CompleteEmptyRead, ReapFlush, RetireFailed, ReapRead,
         FrontCompleted
<1>4. StageOfOp'
  BY <1>1, <1>2 DEF QueueInv, StageOfOp, Holds
<1>5. ControlToken'
  BY <1>1, <1>2 DEF QueueInv, ControlToken
<1>6. ControlAlone'
  BY <1>2, <1>3 DEF QueueInv, ControlAlone, WritesPending
<1>7. QueueWithinDepth'
  <2>1. InQueue' \subseteq InQueue
    BY <1>1, <1>2 DEF InQueue
  <2> QED
    BY <2>1, QueueCount DEF QueueInv
<1> QED
  BY <1>4, <1>5, <1>6, <1>7 DEF QueueInv

\* An operation moves on: only a flush, whose slot is in no queue and which excludes the
\* control request, adds a request.
LEMMA StageQueue ==
    ASSUME Inv, QueueInv,
           FlushSubmit \/ \E s \in Slots : ReapWrite(s) \/ ReapMetadata(s)
    PROVE  QueueInv'
<1> USE DEF ticketVars, failVars, ownerVars, indexVars, Submit, Goto, Pop
<1>1. /\ slots \in [Slots -> Pending \cup {None}]
      /\ io \in [Tokens -> {"idle", "busy", "ok", "err"}]
      /\ CONTROL \in Tokens /\ CONTROL \notin Slots /\ None \notin Slots /\ Slots \subseteq Tokens
  BY PipelineAssumption DEF Inv, TypeOK, QueueType, Tokens
<1>2. UNCHANGED <<control, maintenance, queue_failed, writes, flush>>
  BY DEF FlushSubmit, ReapWrite, ReapMetadata
<1>3. ControlAlone'
  BY <1>2 DEF QueueInv, ControlAlone, WritesPending
<1>4. CASE FlushSubmit
  <2>1. ~queue_failed /\ flush # None /\ flush \in Slots /\ Holds(flush, "flush")
    BY <1>4 DEF Inv, Running, FlushSubmit, FlushRunnable, FlushSlot, TypeOK, QueueType
  <2>2. slots[flush] \in Pending
    BY <1>1, <2>1 DEF Holds
  <2>3. slots' = [slots EXCEPT ![flush].stage = "submitted"] /\ io' = [io EXCEPT ![flush] = "busy"]
    BY <1>4 DEF FlushSubmit
  <2>4. StageOfOp'
    <3>1. \A y \in Slots : y # flush => slots'[y] = slots[y]
      BY <1>1, <2>3
    <3>2. slots'[flush].op = "flush" /\ slots'[flush].stage = "submitted"
      BY <1>1, <2>1, <2>2, <2>3 DEF Holds, Pending
    <3> QED
      BY <3>1, <3>2 DEF QueueInv, StageOfOp, Holds
  <2>5. control = "none"
    BY <2>1 DEF QueueInv, ControlAlone, WritesPending
  <2>6. ControlToken'
    BY <1>1, <1>2, <2>1, <2>3 DEF QueueInv, ControlToken
  <2>7. InQueue' \subseteq Slots
    BY <1>1, <1>2, <2>5, <2>6 DEF InQueue, Tokens, ControlToken
  <2> QED
    BY <1>3, <2>4, <2>6, <2>7, QueueCount DEF QueueInv
<1>5. ASSUME NEW s \in Slots, ReapWrite(s) \/ ReapMetadata(s)
      PROVE  QueueInv'
  <2>1. PICK x \in Stages : /\ slots' = [slots EXCEPT ![s].stage = x]
                            /\ slots[s].op = "write" \/ (slots[s].op = "verified" /\ x = "value")
    <3>1. CASE ReapWrite(s)
      <4>1. io[s] \in Stages /\ slots' = [slots EXCEPT ![s].stage = io[s]] /\ slots[s].op = "write"
        BY <3>1 DEF ReapWrite, Stages
      <4> QED
        BY <4>1
    <3>2. CASE ReapMetadata(s)
      <4>1. "value" \in Stages
        BY DEF Stages
      <4> QED
        BY <3>2, <4>1 DEF ReapMetadata
    <3> QED
      BY <1>5, <3>1, <3>2
  <2>2. slots[s] # None /\ slots[s] \in Pending
    <3>1. io[s] # "idle" /\ ~queue_failed
      BY <1>5 DEF ReapWrite, ReapMetadata, Inv, Running
    <3>2. slots[s] # None
      BY <3>1 DEF Inv, IdleSlots
    <3> QED
      BY <1>1, <3>2
  <2>3. StageOfOp'
    <3>1. \A y \in Slots : y # s => slots'[y] = slots[y]
      BY <1>1, <2>1
    <3>2. slots'[s].op = slots[s].op /\ slots'[s].stage = x
      BY <1>1, <2>1, <2>2 DEF Pending
    <3> QED
      BY <2>1, <3>1, <3>2 DEF QueueInv, StageOfOp, Holds
  <2>4. io[s] # "idle" /\ \A t \in Tokens : t # s => io'[t] = io[t]
    BY <1>1, <1>5 DEF ReapWrite, ReapMetadata
  <2>5. ControlToken'
    BY <1>1, <1>2, <2>4 DEF QueueInv, ControlToken
  <2>6. InQueue' \subseteq InQueue
    BY <1>1, <2>4 DEF InQueue
  <2> QED
    BY <1>3, <2>3, <2>5, <2>6, QueueCount DEF QueueInv
<1> QED
  BY <1>4, <1>5

\* The control request enters the queue when there is a vacancy; the device completes requests.
LEMMA DeviceQueue ==
    ASSUME Inv, QueueInv,
           StartControl \/ Device \/ \E bytes \in 0..1 : ReapControl(bytes)
    PROVE  QueueInv'
<1> USE DEF ticketVars, failVars, ownerVars, indexVars, Submit, Pop
<1>1. /\ io \in [Tokens -> {"idle", "busy", "ok", "err"}] /\ CONTROL \in Tokens
      /\ CONTROL \notin Slots
  BY PipelineAssumption DEF Inv, TypeOK, QueueType, Tokens
<1>2. UNCHANGED <<slots, writes, flush, maintenance, queue_failed>>
  BY DEF StartControl, ReapControl, Device, DeviceComplete
<1>3. StageOfOp'
  BY <1>2 DEF QueueInv, StageOfOp, Holds
<1>4. ControlAlone'
  <2>1. control' # "none" => control # "none"
    BY <1>1 DEF StartControl, ReapControl, Device, DeviceComplete, QueueInv, ControlToken
  <2> QED
    BY <1>2, <2>1 DEF QueueInv, ControlAlone, WritesPending
<1>5. ControlToken'
  BY <1>1 DEF QueueInv, ControlToken, StartControl, ReapControl, Device, DeviceComplete
<1>6. QueueWithinDepth'
  <2>1. CASE StartControl
    <3>1. InQueue' \subseteq InQueue \/ (InQueue' \subseteq InQueue \cup {CONTROL} /\ Vacant > 0)
      BY <1>1, <2>1 DEF StartControl, InQueue
    <3> QED
      BY <1>1, <3>1, QueueCount DEF QueueInv
  <2>2. CASE Device \/ \E bytes \in 0..1 : ReapControl(bytes)
    <3>1. InQueue' \subseteq InQueue
      BY <1>1, <2>2 DEF Device, DeviceComplete, ReapControl, InQueue
    <3> QED
      BY <3>1, QueueCount DEF QueueInv
  <2> QED
    BY <2>1, <2>2
<1> QED
  BY <1>3, <1>4, <1>5, <1>6 DEF QueueInv

\* Every step keeps what the queue relies on.
LEMMA NextQueue == Inv /\ QueueInv /\ [Next]_vars => QueueInv'
<1> SUFFICES ASSUME Inv, QueueInv, [Next]_vars PROVE QueueInv'
  OBVIOUS
<1>1. CASE Api
  BY <1>1, AcceptQueue DEF Api
<1>2. CASE Owner
  BY <1>2, OwnerQueue
<1>3. CASE PollStep
  <2>1. CASE RetireWrite \/ FlushFinish \/ CompleteEmptyRead
    BY <2>1, CompleteQueue
  <2>2. CASE \/ RetireEnd \/ FlushSkip \/ ReadsEnd \/ QueuePoll \/ ReapEnd
             \/ QueueError \/ RetireFailedEnd
    BY <2>2, PollQueue
  <2>3. CASE FlushSubmit
    BY <2>3, StageQueue
  <2>4. CASE StartControl \/ \E bytes \in 0..1 : ReapControl(bytes)
    BY <2>4, DeviceQueue
  <2>5. CASE \E s \in Slots : Reap(s) \/ RetireFailed(s)
    BY <2>5, CompleteQueue, StageQueue DEF Reap
  <2> QED
    BY <1>3, <2>1, <2>2, <2>3, <2>4, <2>5 DEF PollStep
<1>4. CASE Device
  BY <1>4, DeviceQueue
<1>5. CASE PollBegin
  BY <1>5, PollQueue
<1>6. CASE UNCHANGED vars
  <2>1. UNCHANGED <<slots, io, writes, flush, control, maintenance, queue_failed>>
    BY <1>6 DEF vars, queueVars, ownerVars, failVars
  <2>2. ControlAlone'
    BY <2>1 DEF QueueInv, ControlAlone, WritesPending
  <2> QED
    BY <2>1, <2>2, QueueStays
<1> QED
  BY <1>1, <1>2, <1>3, <1>4, <1>5, <1>6 DEF Next

\* An empty queue with no request out satisfies the queue's invariant.
LEMMA InitQueue == Init => QueueInv
<1> SUFFICES ASSUME Init PROVE QueueInv
  OBVIOUS
<1>1. StageOfOp /\ ControlToken /\ ControlAlone
  BY DEF Init, StageOfOp, ControlToken, ControlAlone, Holds, Tokens
<1>2. InQueue = {}
  BY DEF Init, InQueue
<1>3. QueueWithinDepth
  BY <1>2, FS_EmptySet, FS_CardinalityType, PipelineAssumption, SMT DEF QueueWithinDepth, Depth
<1> QED
  BY <1>1, <1>3 DEF QueueInv

\* The bounded queue never overflows, although a flush takes its place long after it was
\* admitted, and every request it returns finds the operation that waits for it.
THEOREM QueueIsSound == Spec => []QueueSound
<1>1. Init => QueueInv
  BY InitQueue
<1>2. Inv /\ QueueInv => QueueSound
  <2> SUFFICES ASSUME Inv, QueueInv PROVE LiveTokens
    BY DEF QueueInv, QueueSound
  <2>1. ASSUME NEW s \in Slots, io[s] # "idle", ~queue_failed
        PROVE  /\ s \in InFlight
               /\ slots[s].stage \in {"io", "metadata", "value", "inline", "submitted"}
    <3>1. slots[s] # None
      BY <2>1 DEF Inv, IdleSlots
    <3>2. slots[s] \in Pending
      BY <3>1 DEF Inv, TypeOK, QueueType
    <3>3. slots[s].op \in Ops
      BY <3>2 DEF Pending
    <3>4. slots[s].op # "empty" /\ (slots[s].op = "write" => slots[s].stage = "io")
      BY <2>1, <3>1 DEF Inv, IdleSlots, Holds
    <3>5. slots[s].op = "flush" => slots[s].stage = "submitted"
      BY <2>1, <3>1, PipelineAssumption DEF QueueInv, StageOfOp, Inv, FlushSlot, Holds
    <3>6. slots[s].stage \in {"io", "metadata", "value", "inline", "submitted"}
      BY <3>1, <3>3, <3>4, <3>5 DEF QueueInv, StageOfOp, Holds, Ops
    <3> QED
      BY <3>1, <3>6 DEF InFlight, Free
  <2> QED
    BY <2>1 DEF LiveTokens, QueueInv, ControlToken
<1> QED
  BY <1>1, <1>2, Invariance, NextQueue, PTL DEF Spec

\* The vacancies after a step that adds no request, or one.
LEMMA VacantCount ==
    /\ InQueue' \subseteq InQueue /\ Vacant > 0 => Vacant' > 0
    /\ \A t \in Tokens : InQueue' \subseteq InQueue \cup {t} /\ Vacant > 1 => Vacant' > 0
<1>1. /\ IsFiniteSet(InQueue) /\ IsFiniteSet(InQueue')
      /\ Depth \in Nat /\ Cardinality(InQueue) \in Nat /\ Cardinality(InQueue') \in Nat
  <2>1. IsFiniteSet(Tokens)
    BY PipelineAssumption, FS_AddElement DEF Tokens
  <2> QED
    BY <2>1, QueueCount, FS_Subset DEF InQueue
<1>2. ASSUME InQueue' \subseteq InQueue, Vacant > 0 PROVE Vacant' > 0
  <2>1. Cardinality(InQueue') <= Cardinality(InQueue)
    BY <1>1, <1>2, FS_Subset
  <2> QED
    BY <1>1, <1>2, <2>1, SMT DEF Vacant
<1>3. ASSUME NEW t \in Tokens, InQueue' \subseteq InQueue \cup {t}, Vacant > 1
      PROVE  Vacant' > 0
  <2>1. /\ IsFiniteSet(InQueue \cup {t}) /\ Cardinality(InQueue \cup {t}) \in Nat
        /\ Cardinality(InQueue \cup {t}) <= Cardinality(InQueue) + 1
    <3>1. /\ IsFiniteSet(InQueue \cup {t})
          /\ Cardinality(InQueue \cup {t}) =
                IF t \in InQueue THEN Cardinality(InQueue) ELSE Cardinality(InQueue) + 1
      BY <1>1, FS_AddElement
    <3> QED
      BY <1>1, <3>1, SMT
  <2>2. Cardinality(InQueue') <= Cardinality(InQueue \cup {t})
    BY <1>3, <2>1, FS_Subset
  <2> QED
    BY <1>1, <1>3, <2>1, <2>2, SMT DEF Vacant
<1> QED
  BY <1>2, <1>3

\* While a control request waits for a place, the only steps that add a request are reads,
\* which leave one place more than they take, and the control request itself.
LEMMA ControlKeepsPlace ==
    ASSUME Inv, QueueInv, [Next]_vars, control = "queued", Vacant > 0
    PROVE  Vacant' > 0 \/ control' = "active"
<1>1. /\ io \in [Tokens -> {"idle", "busy", "ok", "err"}] /\ Slots \subseteq Tokens
      /\ CONTROL \in Tokens
  BY DEF Inv, TypeOK, QueueType, Tokens
<1>2. ~queue_failed => maintenance /\ ~WritesPending
  BY DEF QueueInv, ControlAlone
<1>3. CASE Api
  <2>1. PICK s \in Slots :
            \/ ~maintenance /\ \E frame \in Frames : Write(frame, s)
            \/ ~maintenance /\ Flush(s)
            \/ \E k \in Keys : \/ Read(k, s) \/ ReadEmpty(k, s)
                               \/ \E inline \in BOOLEAN : ReadVerified(k, inline, s)
    BY <1>3 DEF Api
  <2>2. /\ Vacant > (IF maintenance THEN 1 ELSE 0) /\ ~queue_failed
        /\ io' = io \/ io' = [io EXCEPT ![s] = "busy"]
    BY <2>1 DEF Write, Flush, Read, ReadEmpty, ReadVerified, Admission, Room, Submit
  <2>3. Vacant > 1 /\ s \in Tokens /\ InQueue' \subseteq InQueue \cup {s}
    BY <1>1, <1>2, <2>2 DEF InQueue
  <2> QED
    BY <2>3, VacantCount
<1>4. ASSUME io' = io \/ \E t \in Tokens : io[t] # "idle" /\ \E x : io' = [io EXCEPT ![t] = x]
      PROVE  Vacant' > 0
  <2>1. InQueue' \subseteq InQueue
    BY <1>1, <1>4 DEF InQueue
  <2> QED
    BY <2>1, VacantCount
<1>5. CASE Owner \/ PollBegin \/ UNCHANGED vars
  <2>1. io' = io
    BY <1>5
       DEF Owner, BeginMaintenance, WasteTicket, EndMaintenance, ControlIo, TakeControl, Attach,
       TakeSegment, Restore, PollBegin, vars, queueVars
  <2> QED
    BY <1>4, <2>1
<1>6. CASE Device
  <2>1. \E t \in Tokens : io[t] # "idle" /\ \E x : io' = [io EXCEPT ![t] = x]
    BY <1>6 DEF Device, DeviceComplete
  <2> QED
    BY <1>4, <2>1
<1>7. CASE StartControl
  BY <1>7 DEF StartControl
<1>8. CASE FlushSubmit
  BY <1>2, <1>8 DEF FlushSubmit, FlushRunnable, Inv, Running, WritesPending
<1>9. CASE \/ RetireWrite \/ RetireEnd \/ FlushSkip \/ FlushFinish \/ CompleteEmptyRead \/ ReadsEnd
           \/ QueuePoll \/ QueueError \/ ReapEnd \/ RetireFailedEnd
           \/ \E s \in Slots : RetireFailed(s)
  <2>1. io' = io
    BY <1>9 DEF RetireWrite, RetireEnd, FlushSkip, FlushFinish, CompleteEmptyRead, ReadsEnd,
       QueuePoll, QueueError, ReapEnd, RetireFailedEnd, RetireFailed, queueVars
  <2> QED
    BY <1>4, <2>1
<1>10. CASE (\E bytes \in 0..1 : ReapControl(bytes)) \/ \E s \in Slots : Reap(s)
  <2>1. \E t \in Tokens : io[t] # "idle" /\ \E x : io' = [io EXCEPT ![t] = x]
    BY <1>1, <1>10, SMT DEF ReapControl, Reap, ReapWrite, ReapRead, ReapMetadata, ReapFlush, Pop, Submit
  <2> QED
    BY <1>4, <2>1
<1> QED
  BY <1>3, <1>5, <1>6, <1>7, <1>8, <1>9, <1>10 DEF Next, PollStep

\* Reads cannot starve a lifecycle job: a place that a queued control request could take is
\* taken by nothing else (the reserve in admission, start_control).
THEOREM ControlGetsItsPlace == Spec => ControlNotStarved
<1>1. Inv /\ QueueInv /\ [Next]_vars
        => [control = "queued" /\ Vacant > 0 => Vacant' > 0 \/ control' = "active"]_vars
  BY ControlKeepsPlace
<1>2. Spec => [](Inv /\ QueueInv)
  BY InitInv, InitQueue, NextInv, NextQueue, PTL DEF Spec
<1> QED
  BY <1>1, <1>2, PTL DEF Spec, ControlNotStarved

(***************************************************************************)
(* Sleeping.  Everything poll could do by itself shows in has_ready except *)
(* a flush whose turn has come; past the flush phases there is none.       *)
(***************************************************************************)
FlushTried == flush # None /\ writes = <<>> => io[flush] # "idle"

WorkInv ==
    ~queue_failed /\ flush # None =>
        /\ slots[flush].stage = "submitted" => io[flush] # "idle"
        /\ pc \in {"control1", "reads", "poll", "reap", "control2"} /\ writes = <<>>
              => slots[flush].stage = "submitted"

\* A flush leaves the flush phases submitted, unless writes are still pending.
LEMMA NextWork ==
    ASSUME Inv, QueueInv, WorkInv, [Next]_vars
    PROVE  WorkInv'
<1> DEFINE late == {"control1", "reads", "poll", "reap", "control2"}
<1>1. /\ slots \in [Slots -> Pending \cup {None}] /\ None \notin Slots /\ None \notin Pending
      /\ io \in [Tokens -> {"idle", "busy", "ok", "err"}] /\ Slots \subseteq Tokens
      /\ CONTROL \in Tokens /\ CONTROL \notin Slots /\ flush \in Slots \cup {None}
  BY PipelineAssumption DEF Inv, TypeOK, QueueType, Tokens
<1>2. ~queue_failed /\ flush # None => flush \in Slots /\ Holds(flush, "flush")
  BY <1>1 DEF Inv, FlushSlot
<1>3. ASSUME ~queue_failed' => ~queue_failed, flush' = flush, slots'[flush] = slots[flush],
             io'[flush] # "idle" \/ io'[flush] = io[flush],
             pc' \notin late \/ (pc \in late /\ writes' = writes)
      PROVE  WorkInv'
  BY <1>3 DEF WorkInv
<1>4. ASSUME queue_failed' \/ flush' = None PROVE WorkInv'
  BY <1>4 DEF WorkInv
<1>5. ASSUME NEW s, NEW x, slots' = [slots EXCEPT ![s] = x], flush # None, s # flush
      PROVE  slots'[flush] = slots[flush]
  BY <1>1, <1>5
<1>6. CASE Api
  <2>1. PICK s \in Slots :
            \/ \E frame \in Frames : Write(frame, s)
            \/ Flush(s)
            \/ \E k \in Keys : \/ Read(k, s) \/ ReadEmpty(k, s)
                               \/ \E inline \in BOOLEAN : ReadVerified(k, inline, s)
    BY <1>6 DEF Api
  <2>2. /\ pc' = "idle" /\ ~queue_failed /\ queue_failed' = queue_failed /\ slots[s] = None
        /\ io' = io \/ io' = [io EXCEPT ![s] = "busy"]
        /\ \E x : slots' = [slots EXCEPT ![s] = x]
    BY <2>1
       DEF Write, Flush, Read, ReadEmpty, ReadVerified, Admission, TakeSlot, Submit, pollVars,
       failVars
  <2>3. CASE Flush(s)
    <3>1. flush' = s /\ slots'[s].stage = "queued"
      BY <1>1, <2>3 DEF Flush, TakeSlot
    <3> QED
      BY <2>2, <3>1 DEF WorkInv
  <2>4. CASE ~Flush(s)
    <3>1. flush' = flush
      BY <2>1, <2>4 DEF Write, Read, ReadEmpty, ReadVerified
    <3>2. flush # None => s # flush
      BY <1>2, <2>2 DEF Holds
    <3>3. flush # None => slots'[flush] = slots[flush] /\ io'[flush] = io[flush]
      BY <1>1, <2>2, <3>2
    <3> QED
      BY <1>3, <1>4, <2>2, <3>1, <3>3
  <2> QED
    BY <2>3, <2>4
<1>7. CASE Owner \/ UNCHANGED vars
  <2>1. UNCHANGED <<slots, io, writes, flush, queue_failed, pc>>
    BY <1>7
       DEF Owner, BeginMaintenance, WasteTicket, EndMaintenance, ControlIo, TakeControl, Attach,
       TakeSegment, Restore, vars, queueVars, failVars, pollVars
  <2> QED
    BY <1>3, <2>1
<1>8. CASE Device
  <2>1. /\ UNCHANGED <<slots, writes, flush, queue_failed, pc>>
        /\ \E t \in Tokens, result \in {"ok", "err"} : io' = [io EXCEPT ![t] = result]
    BY <1>8 DEF Device, DeviceComplete, failVars, pollVars
  <2>2. flush # None => io'[flush] # "idle" \/ io'[flush] = io[flush]
    BY <1>1, <2>1
  <2> QED
    BY <1>3, <1>4, <2>1, <2>2
<1>9. CASE PollBegin \/ RetireEnd \/ ReadsEnd \/ QueuePoll \/ ReapEnd
  <2>1. UNCHANGED <<slots, io, writes, flush, queue_failed>>
    BY <1>9 DEF PollBegin, RetireEnd, ReadsEnd, QueuePoll, ReapEnd, queueVars, failVars
  <2>2. pc' \notin late \/ pc \in late
    BY <1>9 DEF PollBegin, RetireEnd, ReadsEnd, QueuePoll, ReapEnd, Goto, AfterRetire
  <2> QED
    BY <1>3, <2>1, <2>2
<1>10. CASE FlushSkip
  <2>1. UNCHANGED <<slots, io, writes, flush, queue_failed>> /\ ~FlushRunnable
    BY <1>10 DEF FlushSkip, queueVars, failVars
  <2>2. ~queue_failed /\ flush # None /\ writes = <<>> => slots[flush].stage = "submitted"
    BY <1>2, <2>1 DEF FlushRunnable, QueueInv, StageOfOp
  <2> QED
    BY <2>1, <2>2 DEF WorkInv
<1>11. CASE FlushFinish \/ QueueError \/ \E s \in Slots : ReapFlush(s)
  BY <1>4, <1>11 DEF FlushFinish, QueueError, ReapFlush
<1>12. CASE RetireFailedEnd \/ \E s \in Slots : RetireFailed(s)
  <2>1. queue_failed'
    BY <1>12 DEF RetireFailedEnd, RetireFailed, Inv, Running, failVars
  <2> QED
    BY <1>4, <2>1
<1>13. CASE FlushSubmit
  <2>1. /\ slots' = [slots EXCEPT ![flush].stage = "submitted"] /\ io' = [io EXCEPT ![flush] = "busy"]
        /\ flush' = flush /\ flush # None /\ ~queue_failed
    BY <1>13 DEF FlushSubmit, FlushRunnable, Submit, Inv, Running
  <2>2. slots[flush] \in Pending /\ flush \in Slots /\ flush \in Tokens
    BY <1>1, <1>2, <2>1 DEF Holds
  <2>3. slots'[flush].stage = "submitted" /\ io'[flush] = "busy"
    BY <1>1, <2>1, <2>2 DEF Pending
  <2> QED
    BY <2>1, <2>3 DEF WorkInv
<1>14. CASE StartControl \/ \E bytes \in 0..1 : ReapControl(bytes)
  <2>1. /\ UNCHANGED <<slots, writes, flush, queue_failed>>
        /\ io' = io \/ \E x : io' = [io EXCEPT ![CONTROL] = x]
        /\ pc' \notin late \/ pc \in late
    BY <1>14 DEF StartControl, ReapControl, Submit, failVars, Goto, Return, Pop
  <2>2. flush # None => io'[flush] = io[flush]
    BY <1>1, <2>1
  <2> QED
    BY <1>3, <1>4, <2>1, <2>2
\* A step on the slot of another operation.
<1>15. ASSUME NEW s \in Slots, Holds(s, "write") \/ Holds(s, "read") \/ Holds(s, "verified")
                               \/ Holds(s, "empty"),
              \E x : slots' = [slots EXCEPT ![s] = x],
              io' = io \/ \E x : io' = [io EXCEPT ![s] = x],
              flush' = flush, queue_failed' = queue_failed, pc' = pc,
              pc \notin late \/ writes' = writes
       PROVE  WorkInv'
  <2>1. CASE queue_failed \/ flush = None
    BY <1>4, <1>15, <2>1
  <2>2. CASE ~queue_failed /\ flush # None
    <3>1. s # flush
      BY <1>2, <1>15, <2>2 DEF Holds
    <3>2. slots'[flush] = slots[flush] /\ io'[flush] = io[flush]
      BY <1>1, <1>2, <1>15, <2>2, <3>1
    <3> QED
      BY <1>3, <1>15, <3>2
  <2> QED
    BY <2>1, <2>2
<1>16. CASE RetireWrite
  <2>1. pc \in {"retire1", "retire2"} /\ writes # <<>> /\ ~queue_failed
    BY <1>16 DEF RetireWrite, FrontCompleted, Inv, Running
  <2>2. Head(writes) \in Slots /\ Holds(Head(writes), "write")
    BY <2>1, HeadFacts
  <2>3. /\ slots' = [slots EXCEPT ![Head(writes)] = None] /\ io' = io
        /\ flush' = flush /\ queue_failed' = queue_failed /\ pc' = pc
    BY <1>16 DEF RetireWrite, failVars
  <2> QED
    BY <1>15, <2>1, <2>2, <2>3
<1>17. CASE CompleteEmptyRead
  <2>1. pc = "reads" /\ ready_reads # <<>> /\ ready_reads \in Seq(Slots)
    BY <1>17 DEF CompleteEmptyRead, Inv, TypeOK, QueueType
  <2>2. Head(ready_reads) \in Slots /\ Head(ready_reads) = ready_reads[1] /\ 1 \in DOMAIN ready_reads
    BY <2>1, SMT
  <2>3. Holds(Head(ready_reads), "empty")
    BY <2>1, <2>2 DEF Inv, Running, EmptyReads
  <2>4. /\ slots' = [slots EXCEPT ![Head(ready_reads)] = None]
        /\ UNCHANGED <<io, writes, flush, queue_failed, pc>>
    BY <1>17 DEF CompleteEmptyRead, failVars
  <2> QED
    BY <1>15, <2>2, <2>3, <2>4
<1>18. ASSUME NEW s \in Slots, ReapWrite(s) \/ ReapMetadata(s)
                               \/ \E result \in {"ok", "err"} : ReapRead(s, result)
       PROVE  WorkInv'
  <2>1. io[s] # "idle" /\ ~queue_failed
    BY <1>18 DEF ReapWrite, ReapMetadata, ReapRead, Pop, Inv, Running
  <2>2. slots[s] # None
    BY <2>1 DEF Inv, IdleSlots
  <2>3. slots[s].op \in {"write", "read", "verified"}
    BY <1>18 DEF ReapWrite, ReapMetadata, ReapRead
  <2>4. /\ \E x : slots' = [slots EXCEPT ![s] = x]
        /\ \E x : io' = [io EXCEPT ![s] = x]
        /\ UNCHANGED <<writes, flush, queue_failed, pc>>
    BY <1>18 DEF ReapWrite, ReapMetadata, ReapRead, Submit, failVars
  <2> QED
    BY <1>15, <2>2, <2>3, <2>4 DEF Holds
<1> QED
  BY <1>6, <1>7, <1>8, <1>9, <1>10, <1>11, <1>12, <1>13, <1>14, <1>16, <1>17, <1>18
  DEF Next, PollStep, Reap

\* has_ready reports every kind of local work but a flush that was not tried.
LEMMA WorkSeen == Inv /\ (queue_failed \/ FlushTried) => (LocalWork => HasReady)
<1> SUFFICES ASSUME Inv, queue_failed \/ FlushTried, LocalWork PROVE HasReady
  OBVIOUS
<1>1. CASE queue_failed
  BY <1>1 DEF LocalWork, HasReady
<1>2. CASE ~queue_failed
  <2>1. CASE control = "queued" /\ Cardinality(InQueue) < Depth
    <3>1. Vacant # 0
      BY <2>1, QueueCount, SMT DEF Vacant
    <3> QED
      BY <1>2, <2>1, <3>1 DEF HasReady
  <2>2. CASE writes # <<>> /\ io[Head(writes)] = "idle"
    <3>1. Head(writes) \in Slots /\ Head(writes) = writes[1] /\ 1 \in DOMAIN writes
      BY <2>2, SMT DEF Inv, TypeOK, QueueType
    <3>2. Holds(Head(writes), "write")
      BY <1>2, <3>1 DEF Inv, WriteQueue
    <3>3. slots[Head(writes)].stage \in {"ok", "err"}
      BY <1>2, <2>2, <3>1, <3>2 DEF Inv, IdleSlots, WriteStages
    <3> QED
      BY <1>2, <2>2, <3>3 DEF HasReady, FrontCompleted
  <2>3. ~(flush # None /\ writes = <<>> /\ io[flush] = "idle")
    BY <1>2 DEF FlushTried
  <2> QED
    BY <1>2, <2>1, <2>2, <2>3 DEF LocalWork, HasReady
<1> QED
  BY <1>1, <1>2

\* An owner that sleeps, in the queue or on its notification descriptor, leaves no work behind
\* that only another poll could do, whatever budget cut the poll short (poll, has_ready).
THEOREM NeverSleepsOnWork == Spec => NeverIdleWithWork
<1> DEFINE WInv == Inv /\ QueueInv /\ WorkInv
<1>1. Spec => []WInv
  <2>1. Init => WInv
    BY InitInv, InitQueue DEF Init, WorkInv
  <2>2. WInv /\ [Next]_vars => WInv'
    BY NextInv, NextQueue, NextWork
  <2> QED
    BY <2>1, <2>2, PTL DEF Spec
<1>2. WInv => NoSleepWithWork
  <2> SUFFICES ASSUME WInv, pc = "poll", MaySleep, LocalWork PROVE FALSE
    BY DEF NoSleepWithWork
  <2>1. FlushTried \/ queue_failed
    BY DEF WorkInv, FlushTried
  <2> QED
    BY <2>1, WorkSeen DEF MaySleep
<1>3. WInv /\ [Next]_vars => [pc # "idle" /\ pc' = "idle" => (queue_failed \/ FlushTried)']_vars
  <2> SUFFICES ASSUME WInv, Next, pc # "idle", pc' = "idle" PROVE (queue_failed \/ FlushTried)'
    BY DEF vars, pollVars
  <2>1. CASE RetireFailedEnd
    BY <2>1 DEF RetireFailedEnd, Inv, Running, failVars
  <2>2. CASE StartControl
    <3>1. /\ UNCHANGED <<slots, writes, flush, queue_failed>> /\ pc = "control2"
          /\ io' = io \/ io' = [io EXCEPT ![CONTROL] = "busy"]
      BY <2>2 DEF StartControl, Submit, failVars, Goto
    <3>2. FlushTried \/ queue_failed
      BY <3>1 DEF WorkInv, FlushTried
    <3>3. flush # None => io'[flush] = io[flush]
      BY <3>1, PipelineAssumption DEF Inv, TypeOK, QueueType, Tokens
    <3> QED
      BY <3>1, <3>2, <3>3 DEF FlushTried
  <2>3. ~(Api \/ Owner \/ Device \/ PollBegin)
    BY
       DEF Api, Owner, Device, PollBegin, BeginMaintenance, WasteTicket, EndMaintenance, ControlIo,
       TakeControl, Attach, TakeSegment, Restore, Write, Flush, Read, ReadEmpty, ReadVerified,
       Admission, DeviceComplete, pollVars
  <2>4. PollStep => RetireFailedEnd \/ StartControl
    BY
       DEF PollStep, RetireWrite, RetireEnd, FlushSkip, FlushFinish, FlushSubmit, CompleteEmptyRead,
       ReadsEnd, QueuePoll, QueueError, ReapControl, Reap, ReapWrite, ReapRead, ReapMetadata, ReapFlush,
       RetireFailed, ReapEnd, Goto, AfterRetire, AfterFlush, pollVars
  <2> QED
    BY <2>1, <2>2, <2>3, <2>4 DEF Next
<1>4. Inv /\ (queue_failed \/ FlushTried) => (LocalWork => HasReady)
  BY WorkSeen
<1> QED
  BY <1>1, <1>2, <1>3, <1>4, PTL DEF Spec, NeverIdleWithWork, NoLostWakeup

(***************************************************************************)
(* Reservations.  The counters are sums over the pending writes, and each  *)
(* pending write holds at least one place for every key it would add.      *)
(***************************************************************************)
Lens == [s \in PendingWrites |-> Len(slots[s].entries)]
Held == [s \in PendingWrites |-> slots[s].reserved]

\* The sums of ReservationsBalanced, as sums of functions.
LEMMA LenSum ==
    ASSUME NEW ps, NEW T, IsFiniteSet(T), NEW f, \A x \in T : f[x] = Len(ps[x].entries)
    PROVE  MapThenSumSet(LAMBDA s : Len(ps[s].entries), T) = SumOf(f, T)
<1> DEFINE P(h) == h = [s \in SUBSET T |->
                          IF s = {} THEN 0
                          ELSE Len(ps[Pick(s)].entries) + h[s \ {Pick(s)}]]
           h == CHOOSE h : P(h)
<1>1. \A s \in SUBSET T : s # {} => f[Pick(s)] = Len(ps[Pick(s)].entries)
  BY DEF Pick
<1>2. \A k : P(k) <=> Sums(f, T, k)
  <2> SUFFICES ASSUME NEW k PROVE P(k) <=> Sums(f, T, k)
    OBVIOUS
  <2> DEFINE d(s) == IF s = {} THEN 0 ELSE Len(ps[Pick(s)].entries) + k[s \ {Pick(s)}]
             e(s) == IF s = {} THEN 0 ELSE f[Pick(s)] + k[s \ {Pick(s)}]
  <2>1. \A s \in SUBSET T : d(s) = e(s)
    BY <1>1
  <2>2. (P(k) <=> k = [s \in SUBSET T |-> d(s)]) /\ (Sums(f, T, k) <=> k = [s \in SUBSET T |-> e(s)])
    BY DEF Sums
  <2> HIDE DEF P, d, e
  <2> QED
    BY <2>1, <2>2
<1>3. MapThenSumSet(LAMBDA s : Len(ps[s].entries), T) = h[T]
  BY DEF MapThenSumSet, MapThenFoldSet, Pick
<1>4. PICK g : Sums(f, T, g)
  BY SumsExist
<1>5. P(g)
  BY <1>2, <1>4
<1>6. P(h)
  <2> HIDE DEF P
  <2> QED
    BY <1>5
<1> HIDE DEF h, P
<1>7. Sums(f, T, h)
  BY <1>2, <1>6
<1> QED
  BY <1>3, <1>7, SumSolves

\* The same for the reservations of pending writes.
LEMMA HeldSum ==
    ASSUME NEW ps, NEW T, IsFiniteSet(T), NEW f, \A x \in T : f[x] = ps[x].reserved
    PROVE  MapThenSumSet(LAMBDA s : ps[s].reserved, T) = SumOf(f, T)
<1> DEFINE P(h) == h = [s \in SUBSET T |->
                          IF s = {} THEN 0
                          ELSE ps[Pick(s)].reserved + h[s \ {Pick(s)}]]
           h == CHOOSE h : P(h)
<1>1. \A s \in SUBSET T : s # {} => f[Pick(s)] = ps[Pick(s)].reserved
  BY DEF Pick
<1>2. \A k : P(k) <=> Sums(f, T, k)
  <2> SUFFICES ASSUME NEW k PROVE P(k) <=> Sums(f, T, k)
    OBVIOUS
  <2> DEFINE d(s) == IF s = {} THEN 0 ELSE ps[Pick(s)].reserved + k[s \ {Pick(s)}]
             e(s) == IF s = {} THEN 0 ELSE f[Pick(s)] + k[s \ {Pick(s)}]
  <2>1. \A s \in SUBSET T : d(s) = e(s)
    BY <1>1
  <2>2. (P(k) <=> k = [s \in SUBSET T |-> d(s)]) /\ (Sums(f, T, k) <=> k = [s \in SUBSET T |-> e(s)])
    BY DEF Sums
  <2> HIDE DEF P, d, e
  <2> QED
    BY <2>1, <2>2
<1>3. MapThenSumSet(LAMBDA s : ps[s].reserved, T) = h[T]
  BY DEF MapThenSumSet, MapThenFoldSet, Pick
<1>4. PICK g : Sums(f, T, g)
  BY SumsExist
<1>5. P(g)
  BY <1>2, <1>4
<1>6. P(h)
  <2> HIDE DEF P
  <2> QED
    BY <1>5
<1> HIDE DEF h, P
<1>7. Sums(f, T, h)
  BY <1>2, <1>6
<1> QED
  BY <1>3, <1>7, SumSolves

\* The counters of entries and of reservations, pending_entries and pending_new, are sums
\* over the pending writes.
LEMMA BalancedIsSum ==
    ReservationsBalanced <=> /\ pending_entries = SumOf(Lens, PendingWrites)
                             /\ pending_new = SumOf(Held, PendingWrites)
<1>1. IsFiniteSet(PendingWrites)
  BY PipelineAssumption, FS_Subset DEF PendingWrites, InFlight
<1>2. MapThenSumSet(LAMBDA s : Len(slots[s].entries), PendingWrites) = SumOf(Lens, PendingWrites)
  <2>1. \A x \in PendingWrites : Lens[x] = Len(slots[x].entries)
    BY DEF Lens
  <2> QED
    BY <1>1, <2>1, LenSum
<1>3. MapThenSumSet(LAMBDA s : slots[s].reserved, PendingWrites) = SumOf(Held, PendingWrites)
  <2>1. \A x \in PendingWrites : Held[x] = slots[x].reserved
    BY DEF Held
  <2> QED
    BY <1>1, <2>1, HeldSum
<1> QED
  BY <1>2, <1>3 DEF ReservationsBalanced

\* The reservation of a pending write covers every key it would add to the index; no other
\* operation holds one.
Covered ==
    \A s \in InFlight :
        IF slots[s].op = "write"
        THEN Cardinality(KeysOf(slots[s].entries) \ DOMAIN index) <= slots[s].reserved
        ELSE slots[s].reserved = 0

Sums2 == pending_entries = SumOf(Lens, PendingWrites) /\ pending_new = SumOf(Held, PendingWrites)

ReserveInv == Sums2 /\ IndexBounded /\ Covered

\* A frame of n records names at most n keys, and an index that takes it grows by the keys
\* it did not hold.
LEMMA KeyCount ==
    ASSUME NEW entries \in Seq(Entry), NEW D, IsFiniteSet(D)
    PROVE  /\ IsFiniteSet(KeysOf(entries) \ D)
           /\ Cardinality(KeysOf(entries) \ D) \in Nat
           /\ Cardinality(KeysOf(entries) \ D) <= Len(entries)
           /\ Cardinality(D \cup KeysOf(entries)) = Cardinality(D) + Cardinality(KeysOf(entries) \ D)
<1> DEFINE n == Len(entries)
           K == KeysOf(entries)
           f == [i \in 1..n |-> entries[i].key]
<1>1. n \in Nat /\ DOMAIN entries = 1..n
  BY SMT
<1>2. f \in Surjection(1..n, K)
  BY <1>1 DEF Surjection, KeysOf
<1>3. IsFiniteSet(1..n) /\ Cardinality(1..n) = n
  BY <1>1, FS_Interval, SMT
<1> HIDE DEF f, n, K
<1>4. IsFiniteSet(K) /\ Cardinality(K) <= n
  BY <1>2, <1>3, FS_Surjection, SMT
<1>5. IsFiniteSet(K \ D) /\ Cardinality(K \ D) <= Cardinality(K)
  BY <1>4, FS_Subset
<1>6. Cardinality(K) \in Nat /\ Cardinality(K \ D) \in Nat /\ Cardinality(D) \in Nat
  BY <1>4, <1>5, FS_CardinalityType
<1>7. Cardinality(D \cup K) = Cardinality(D) + Cardinality(K \ D)
  <2>1. D \cup K = D \cup (K \ D) /\ D \cap (K \ D) = {}
    OBVIOUS
  <2>2. Cardinality(D \cup (K \ D)) = Cardinality(D) + Cardinality(K \ D) - Cardinality(D \cap (K \ D))
    BY <1>5, FS_Union
  <2>3. Cardinality(D \cap (K \ D)) = 0
    BY <2>1, FS_EmptySet
  <2>4. Cardinality(D \cup K) = Cardinality(D \cup (K \ D))
    BY <2>1
  <2> QED
    BY <1>6, <2>2, <2>3, <2>4, SMT
<1> QED
  BY <1>1, <1>4, <1>5, <1>6, <1>7, SMT DEF K, n

\* Types the arithmetic of the reservations needs.
LEMMA ReserveTypes ==
    ASSUME Inv
    PROVE  /\ IsFiniteSet(DOMAIN index) /\ Cardinality(DOMAIN index) \in Nat
           /\ IsFiniteSet(PendingWrites)
           /\ \A s \in InFlight : slots[s] \in Pending /\ slots[s].entries \in Seq(Entry)
                                  /\ slots[s].reserved \in Nat
           /\ \A s \in PendingWrites : Lens[s] = Len(slots[s].entries) /\ Lens[s] \in Nat
                                       /\ Held[s] = slots[s].reserved /\ Held[s] \in Nat
           /\ pending_new \in Int /\ pending_entries \in Int
<1>1. DOMAIN index \subseteq Keys /\ pending_new \in Int /\ pending_entries \in Int
  BY DEF Inv, TypeOK, IndexType
<1>2. IsFiniteSet(DOMAIN index) /\ Cardinality(DOMAIN index) \in Nat
  BY <1>1, PipelineAssumption, FS_Subset, FS_CardinalityType
<1>3. IsFiniteSet(PendingWrites)
  BY PipelineAssumption, FS_Subset DEF PendingWrites, InFlight
<1>4. \A s \in InFlight : slots[s] \in Pending
  BY DEF InFlight, Free, Inv, TypeOK, QueueType
<1>5. \A s \in InFlight : slots[s].entries \in Seq(Entry) /\ slots[s].reserved \in Nat
  BY <1>4 DEF Pending
<1>6. \A s \in PendingWrites : s \in InFlight
  BY DEF PendingWrites
<1>7. \A s \in PendingWrites : Lens[s] = Len(slots[s].entries) /\ Held[s] = slots[s].reserved
  BY <1>6 DEF Lens, Held, InFlight
<1>8. \A s \in PendingWrites : Lens[s] \in Nat /\ Held[s] \in Nat
  BY <1>5, <1>6, <1>7, SMT
<1> QED
  BY <1>1, <1>2, <1>3, <1>4, <1>5, <1>7, <1>8

\* The same for the numbers of IndexBounded alone.
LEMMA CountTypes ==
    ASSUME Inv
    PROVE  /\ IsFiniteSet(DOMAIN index) /\ Cardinality(DOMAIN index) \in Nat
           /\ pending_new \in Int /\ IndexEntries \in Nat
BY ReserveTypes, PipelineAssumption

\* Steps that leave the index, the counters and the pending writes alone.
LEMMA ReserveSame ==
    ASSUME Inv, ReserveInv, UNCHANGED <<index, pending_entries, pending_new>>,
           \A s \in InFlight' : \/ /\ s \in InFlight
                                   /\ slots'[s].op = slots[s].op
                                   /\ slots'[s].entries = slots[s].entries
                                   /\ slots'[s].reserved = slots[s].reserved
                                \/ slots'[s].op # "write" /\ slots'[s].reserved = 0,
           \A s \in PendingWrites : s \in InFlight' /\ slots'[s].op = "write"
    PROVE  ReserveInv'
<1>1. PendingWrites' = PendingWrites
  BY DEF PendingWrites
<1>2. \A s \in PendingWrites : Lens'[s] = Lens[s] /\ Held'[s] = Held[s]
  BY <1>1 DEF PendingWrites, Lens, Held
<1>3. SumOf(Lens', PendingWrites) = SumOf(Lens, PendingWrites)
      /\ SumOf(Held', PendingWrites) = SumOf(Held, PendingWrites)
  <2>1. /\ IsFiniteSet(PendingWrites)
        /\ \A s \in PendingWrites : Lens[s] \in Int
        /\ \A s \in PendingWrites : Held[s] \in Int
    BY ReserveTypes, SMT
  <2>2. SumOf(Lens', PendingWrites) = SumOf(Lens, PendingWrites)
    BY <1>2, <2>1, SumSame, SMT
  <2>3. SumOf(Held', PendingWrites) = SumOf(Held, PendingWrites)
    BY <1>2, <2>1, SumSame, SMT
  <2> QED
    BY <2>2, <2>3
<1>4. Sums2'
  BY <1>1, <1>3 DEF Sums2, ReserveInv
<1>5. Covered'
  BY DEF Covered, ReserveInv
<1> QED
  BY <1>4, <1>5 DEF ReserveInv, IndexBounded

\* A write reserves what it may need, and only if the index keeps within its bound.
LEMMA ReserveWrite ==
    ASSUME Inv, Inv', ReserveInv, NEW frame \in Frames, NEW s \in Slots, Write(frame, s)
    PROVE  ReserveInv'
<1> DEFINE r == ReservedNew(frame)
<1>1. /\ slots[s] = None
      /\ slots' = [slots EXCEPT ![s] = [op |-> "write", ticket |-> next_ticket, stage |-> "io",
                                        entries |-> frame, reserved |-> r]]
      /\ pending_entries' = pending_entries + Len(frame)
      /\ pending_new' = pending_new + r /\ index' = index
      /\ Cardinality(DOMAIN index) + pending_new + r <= IndexEntries
  BY DEF Write, TakeSlot, IndexFits
<1>2. frame \in Seq(Entry) /\ Len(frame) \in Nat /\ r \in Nat
  BY FrameFacts DEF FrameTyped, Inv, TypeOK
<1>3. Cardinality(KeysOf(frame) \ DOMAIN index) <= r
  <2>1. Cardinality(KeysOf(frame) \ DOMAIN index) <= Len(frame)
        /\ Cardinality(KeysOf(frame) \ DOMAIN index) \in Nat
    BY <1>2, CountTypes, KeyCount
  <2> QED
    BY <2>1, SMT DEF ReservedNew
<1> HIDE DEF r
<1>4. /\ \A x \in Slots : x # s => slots'[x] = slots[x]
      /\ slots'[s].op = "write" /\ slots'[s].entries = frame /\ slots'[s].reserved = r
      /\ s \notin InFlight /\ InFlight' = InFlight \cup {s}
  <2>1. slots \in [Slots -> Pending \cup {None}]
    BY DEF Inv, TypeOK, QueueType
  <2>2. slots'[s] # None
    <3>1. next_ticket \in Nat
      BY SMT DEF Inv, TypeOK, TicketType
    <3>2. [op |-> "write", ticket |-> next_ticket, stage |-> "io", entries |-> frame,
           reserved |-> r] \in Pending
      BY <1>2, <3>1 DEF Pending, Ops, Stages
    <3> QED
      BY <1>1, <2>1, <3>2, PipelineAssumption
  <2> QED
    BY <1>1, <2>1, <2>2 DEF InFlight, Free
<1>5. s \notin PendingWrites /\ PendingWrites' = PendingWrites \cup {s}
  BY <1>4 DEF PendingWrites, InFlight, Free
<1>6. /\ \A x \in PendingWrites : Lens[x] = Lens'[x] /\ Held[x] = Held'[x]
      /\ Lens'[s] = Len(frame) /\ Held'[s] = r
  BY <1>4, <1>5 DEF Lens, Held, PendingWrites, InFlight
<1>7. /\ SumOf(Lens', PendingWrites \cup {s}) = SumOf(Lens, PendingWrites) + Len(frame)
      /\ SumOf(Held', PendingWrites \cup {s}) = SumOf(Held, PendingWrites) + r
  <2>1. /\ IsFiniteSet(PendingWrites)
        /\ \A x \in PendingWrites : Lens[x] \in Int
        /\ \A x \in PendingWrites : Held[x] \in Int
    BY ReserveTypes, SMT
  <2>2. SumOf(Lens', PendingWrites \cup {s}) = SumOf(Lens, PendingWrites) + Lens'[s]
    BY <1>2, <1>5, <1>6, <2>1, SumAdd, SMT
  <2>3. SumOf(Held', PendingWrites \cup {s}) = SumOf(Held, PendingWrites) + Held'[s]
    BY <1>2, <1>5, <1>6, <2>1, SumAdd, SMT
  <2> QED
    BY <1>6, <2>2, <2>3
<1>8. Sums2'
  BY <1>1, <1>5, <1>7 DEF Sums2, ReserveInv
<1>9. Covered'
  BY <1>1, <1>3, <1>4 DEF Covered, ReserveInv, InFlight
<1>10. IndexBounded'
  <2>1. Cardinality(DOMAIN index') + pending_new' <= IndexEntries
    BY <1>1, <1>2, CountTypes, SMT
  <2> QED
    BY <2>1 DEF IndexBounded
<1> QED
  BY <1>8, <1>9, <1>10 DEF ReserveInv

\* What the index takes up, the reservations already held.
LEMMA CoveredGrows ==
    ASSUME Inv, Covered, NEW entries \in Seq(Entry),
           DOMAIN index' = DOMAIN index \cup KeysOf(entries),
           \A s \in InFlight' : s \in InFlight /\ slots'[s] = slots[s]
    PROVE  Covered'
<1> SUFFICES ASSUME NEW s \in InFlight', slots'[s].op = "write"
             PROVE  Cardinality(KeysOf(slots[s].entries) \ DOMAIN index') <= slots[s].reserved
  BY DEF Covered
<1> DEFINE K == KeysOf(slots[s].entries)
<1>1. s \in InFlight /\ slots'[s] = slots[s]
  OBVIOUS
<1>2. Cardinality(K \ DOMAIN index) <= slots[s].reserved
  BY <1>1 DEF Covered
<1>3. slots[s].entries \in Seq(Entry) /\ IsFiniteSet(DOMAIN index) /\ slots[s].reserved \in Nat
  BY <1>1, ReserveTypes
<1>4. IsFiniteSet(K \ DOMAIN index) /\ Cardinality(K \ DOMAIN index) \in Nat
  BY <1>3, KeyCount
<1> HIDE DEF K
<1>5. K \ DOMAIN index' \in SUBSET (K \ DOMAIN index)
  OBVIOUS
<1>6. Cardinality(K \ DOMAIN index') <= Cardinality(K \ DOMAIN index)
      /\ Cardinality(K \ DOMAIN index') \in Nat
  BY <1>4, <1>5, FS_Subset, FS_CardinalityType
<1>7. Cardinality(K \ DOMAIN index') <= slots[s].reserved
  BY <1>2, <1>3, <1>4, <1>6, SMT
<1> QED
  BY <1>7 DEF K

\* Releasing the reservation of a write that leaves its slot.
LEMMA ReserveRelease ==
    ASSUME Inv, ReserveInv, NEW s \in InFlight, slots[s].op = "write",
           slots' = [slots EXCEPT ![s] = None], Release(slots[s]),
           index' = index \/ index' = Apply(index, slots[s].entries)
    PROVE  ReserveInv'
<1> DEFINE p == slots[s]
<1>1. pending_entries' = pending_entries - Len(p.entries) /\ pending_new' = pending_new - p.reserved
  BY DEF Release
<1>2. /\ \A x \in Slots : x # s => slots'[x] = slots[x]
      /\ InFlight' = InFlight \ {s} /\ s \in PendingWrites
      /\ PendingWrites' = PendingWrites \ {s}
  BY DEF Inv, TypeOK, QueueType, InFlight, Free, PendingWrites
<1>3. \A x \in PendingWrites \ {s} : Lens'[x] = Lens[x] /\ Held'[x] = Held[x]
  BY <1>2, SMT DEF Lens, Held, PendingWrites, InFlight
<1>4. Lens[s] = Len(p.entries) /\ Held[s] = p.reserved /\ p.entries \in Seq(Entry) /\ p.reserved \in Nat
  BY <1>2, ReserveTypes
<1>5. /\ SumOf(Lens', PendingWrites') = SumOf(Lens, PendingWrites) - Lens[s]
      /\ SumOf(Held', PendingWrites') = SumOf(Held, PendingWrites) - Held[s]
  <2>1. /\ \A x \in PendingWrites : Lens[x] \in Int
        /\ \A x \in PendingWrites : Held[x] \in Int
        /\ IsFiniteSet(PendingWrites)
    BY ReserveTypes, SMT
  <2>2. /\ \A x \in PendingWrites' : Lens'[x] = Lens[x]
        /\ \A x \in PendingWrites' : Held'[x] = Held[x]
        /\ s \in PendingWrites /\ PendingWrites' = PendingWrites \ {s}
    BY <1>2, <1>3
  <2>3. SumOf(Lens', PendingWrites') = SumOf(Lens, PendingWrites) - Lens[s]
    BY <2>1, <2>2, SumDrop, SMT
  <2>4. SumOf(Held', PendingWrites') = SumOf(Held, PendingWrites) - Held[s]
    BY <2>1, <2>2, SumDrop, SMT
  <2> QED
    BY <2>3, <2>4
<1>6. Sums2'
  BY <1>1, <1>2, <1>4, <1>5 DEF Sums2, ReserveInv
<1> HIDE DEF p
<1>7. CASE index' = index
  <2>1. Covered'
    BY <1>2, <1>7 DEF Covered, ReserveInv, InFlight
  <2>2. Cardinality(DOMAIN index) + pending_new <= IndexEntries
    BY DEF IndexBounded, ReserveInv
  <2>3. Cardinality(DOMAIN index') + pending_new' <= IndexEntries
    BY <1>1, <1>4, <1>7, <2>2, CountTypes, SMT
  <2> QED
    BY <1>6, <2>1, <2>3 DEF ReserveInv, IndexBounded
<1>8. CASE index' = Apply(index, p.entries)
  <2>1. DOMAIN index' = DOMAIN index \cup KeysOf(p.entries)
    BY <1>8 DEF Apply
  <2>2. Covered'
    BY <1>2, <1>4, <2>1, CoveredGrows DEF ReserveInv, InFlight
  <2>3. Cardinality(DOMAIN index') = Cardinality(DOMAIN index) + Cardinality(KeysOf(p.entries) \ DOMAIN index)
        /\ Cardinality(KeysOf(p.entries) \ DOMAIN index) \in Nat
    BY <1>4, <2>1, CountTypes, KeyCount
  <2>4. Cardinality(KeysOf(p.entries) \ DOMAIN index) <= p.reserved
    BY DEF p, ReserveInv, Covered
  <2>5. Cardinality(DOMAIN index) + pending_new <= IndexEntries
    BY DEF IndexBounded, ReserveInv
  <2>6. Cardinality(DOMAIN index') + pending_new' <= IndexEntries
    BY <1>1, <1>4, <2>3, <2>4, <2>5, CountTypes, SMT
  <2> QED
    BY <1>6, <2>2, <2>6 DEF ReserveInv, IndexBounded
<1> QED
  BY <1>7, <1>8 DEF p

\* Every step keeps the reservations.
LEMMA NextReserve == Inv /\ Inv' /\ ReserveInv /\ [Next]_vars => ReserveInv'
<1> SUFFICES ASSUME Inv, Inv', ReserveInv, [Next]_vars PROVE ReserveInv'
  OBVIOUS
<1> DEFINE Fixed == UNCHANGED <<index, pending_entries, pending_new>>
<1>1. slots \in [Slots -> Pending \cup {None}] /\ None \notin Pending
  BY PipelineAssumption DEF Inv, TypeOK, QueueType
\* An operation that is no write arrives, changes its stage or leaves.
<1>2. ASSUME NEW s \in Slots, slots[s] = None, NEW p, p.op # "write", p.reserved = 0,
             slots' = [slots EXCEPT ![s] = p], Fixed
      PROVE  ReserveInv'
  <2>1. /\ \A x \in Slots : x # s => slots'[x] = slots[x]
        /\ slots'[s] = p /\ s \notin PendingWrites
    BY <1>1, <1>2 DEF PendingWrites, InFlight, Free
  <2>2. \A x \in InFlight' : \/ x \in InFlight /\ slots'[x] = slots[x]
                             \/ slots'[x].op # "write" /\ slots'[x].reserved = 0
    BY <1>2, <2>1 DEF InFlight, Free
  <2>3. \A x \in PendingWrites : x \in InFlight' /\ slots'[x].op = "write"
    BY <2>1 DEF PendingWrites, InFlight, Free
  <2> QED
    BY <1>2, <2>2, <2>3, ReserveSame
<1>3. ASSUME NEW s \in Slots, slots[s] # None, slots[s].op # "write",
             slots' = [slots EXCEPT ![s] = None], Fixed
      PROVE  ReserveInv'
  <2>1. \A x \in Slots : slots'[x] = IF x = s THEN None ELSE slots[x]
    BY <1>1, <1>3
  <2>2. \A x \in InFlight' : x \in InFlight /\ slots'[x] = slots[x]
    BY <2>1 DEF InFlight, Free
  <2>3. \A x \in PendingWrites : x \in InFlight' /\ slots'[x].op = "write"
    BY <1>3, <2>1 DEF PendingWrites, InFlight, Free
  <2> QED
    BY <1>3, <2>2, <2>3, ReserveSame
<1>4. ASSUME NEW s \in Slots, slots[s] # None, NEW stage \in Stages,
             slots' = [slots EXCEPT ![s].stage = stage], Fixed
      PROVE  ReserveInv'
  <2>1. slots[s] \in Pending
    BY <1>1, <1>4
  <2>2. /\ slots'[s].op = slots[s].op /\ slots'[s].entries = slots[s].entries
        /\ slots'[s].reserved = slots[s].reserved
        /\ \A x \in Slots : x # s => slots'[x] = slots[x]
    BY <1>1, <1>4, <2>1 DEF Pending
  <2>3. slots'[s] # None
    <3>1. [slots[s] EXCEPT !.stage = stage] \in Pending
      BY <2>1 DEF Pending
    <3> QED
      BY <1>1, <1>4, <3>1
  <2>4. \A x \in InFlight' : /\ x \in InFlight
                             /\ slots'[x].op = slots[x].op
                             /\ slots'[x].entries = slots[x].entries
                             /\ slots'[x].reserved = slots[x].reserved
    BY <1>4, <2>2 DEF InFlight, Free
  <2>5. \A x \in PendingWrites : x \in InFlight' /\ slots'[x].op = "write"
    BY <2>2, <2>3 DEF PendingWrites, InFlight, Free
  <2> QED
    BY <1>4, <2>4, <2>5, ReserveSame
<1>5. ASSUME UNCHANGED slots, Fixed
      PROVE  ReserveInv'
  <2>1. \A x \in InFlight' : x \in InFlight /\ slots'[x] = slots[x]
    BY <1>5 DEF InFlight, Free
  <2>2. \A x \in PendingWrites : x \in InFlight' /\ slots'[x].op = "write"
    BY <1>5 DEF PendingWrites, InFlight, Free
  <2> QED
    BY <1>5, <2>1, <2>2, ReserveSame
<1>6. CASE Api
  <2>1. PICK s \in Slots :
          \/ ~maintenance /\ \E frame \in Frames : Write(frame, s)
          \/ ~maintenance /\ Flush(s)
          \/ \E k \in Keys : \/ Read(k, s) \/ ReadEmpty(k, s)
                             \/ \E inline \in BOOLEAN : ReadVerified(k, inline, s)
    BY <1>6 DEF Api
  <2>2. CASE \E frame \in Frames : Write(frame, s)
    BY <2>2, ReserveWrite
  <2>3. CASE Flush(s)
    <3>1. PICK p : p.op # "write" /\ p.reserved = 0 /\ slots[s] = None
                   /\ slots' = [slots EXCEPT ![s] = p]
      <4> DEFINE p == [op |-> "flush", ticket |-> next_ticket, stage |-> "queued",
                       entries |-> <<>>, reserved |-> 0]
      <4>1. p.op # "write" /\ p.reserved = 0
        OBVIOUS
      <4>2. slots[s] = None /\ slots' = [slots EXCEPT ![s] = p]
        BY <2>3 DEF Flush, TakeSlot
      <4> QED
        BY <4>1, <4>2
    <3>2. Fixed
      BY <2>3 DEF Flush, indexVars
    <3> QED
      BY <1>2, <3>1, <3>2
  <2>4. ASSUME NEW k \in Keys, \/ Read(k, s) \/ ReadEmpty(k, s)
                               \/ \E inline \in BOOLEAN : ReadVerified(k, inline, s)
        PROVE  ReserveInv'
    <3>1. PICK op, stage : op \in {"read", "empty", "verified"} /\ slots[s] = None
                           /\ slots' = [slots EXCEPT ![s] = ReadOf(k, op, stage)]
      <4>1. CASE Read(k, s)
        BY <4>1 DEF Read, TakeSlot
      <4>2. CASE ReadEmpty(k, s)
        BY <4>2 DEF ReadEmpty, TakeSlot
      <4>3. CASE \E inline \in BOOLEAN : ReadVerified(k, inline, s)
        BY <4>3 DEF ReadVerified, TakeSlot
      <4> QED
        BY <2>4, <4>1, <4>2, <4>3
    <3>2. ReadOf(k, op, stage).op # "write" /\ ReadOf(k, op, stage).reserved = 0
      BY <3>1 DEF ReadOf
    <3>3. Fixed
      BY <2>4 DEF Read, ReadEmpty, ReadVerified, indexVars
    <3> QED
      BY <1>2, <3>1, <3>2, <3>3
  <2> QED
    BY <2>1, <2>2, <2>3, <2>4
<1>7. ASSUME NEW frame \in Frames, Restore(frame)
      PROVE  ReserveInv'
  <2>1. /\ slots' = slots /\ pending_entries' = pending_entries /\ pending_new' = pending_new
        /\ index' = Apply(index, frame) /\ IndexFits(frame)
    BY <1>7 DEF Restore, queueVars
  <2>2. frame \in Seq(Entry) /\ DOMAIN index' = DOMAIN index \cup KeysOf(frame)
    BY <2>1, PipelineAssumption DEF Apply
  <2>3. Covered'
    <3>1. \A x \in InFlight' : x \in InFlight /\ slots'[x] = slots[x]
      BY <2>1 DEF InFlight, Free
    <3> QED
      BY <2>2, <3>1, CoveredGrows DEF ReserveInv
  <2>4. Sums2'
    BY <2>1 DEF Sums2, ReserveInv, Lens, Held, PendingWrites, InFlight, Free
  <2>5. IndexBounded'
    <3> DEFINE n == Cardinality(KeysOf(frame) \ DOMAIN index)
    <3>1. Cardinality(DOMAIN index') = Cardinality(DOMAIN index) + n /\ n \in Nat /\ n <= Len(frame)
      BY <2>2, CountTypes, KeyCount
    <3>2. n <= ReservedNew(frame) /\ ReservedNew(frame) \in Nat
      <4>1. ReservedNew(frame) = n \/ ReservedNew(frame) = Len(frame)
        BY DEF ReservedNew
      <4>2. Len(frame) \in Nat
        BY <2>2, SMT
      <4> HIDE DEF n
      <4> QED
        BY <3>1, <4>1, <4>2, SMT
    <3>3. /\ Cardinality(DOMAIN index) + pending_new + ReservedNew(frame) <= IndexEntries
          /\ pending_new' = pending_new
      BY <2>1 DEF IndexFits
    <3> HIDE DEF n
    <3>4. Cardinality(DOMAIN index') + pending_new' <= IndexEntries
      BY <3>1, <3>2, <3>3, CountTypes, SMT
    <3> QED
      BY <3>4 DEF IndexBounded
  <2> QED
    BY <2>3, <2>4, <2>5 DEF ReserveInv
<1>8. CASE \/ BeginMaintenance(TRUE) \/ BeginMaintenance(FALSE) \/ WasteTicket \/ EndMaintenance
           \/ ControlIo \/ TakeControl \/ Attach \/ TakeSegment \/ Device \/ PollBegin
           \/ UNCHANGED vars
  <2>1. UNCHANGED slots /\ Fixed
    BY <1>8 DEF BeginMaintenance, WasteTicket, EndMaintenance, ControlIo, TakeControl, Attach,
       TakeSegment, Device, DeviceComplete, PollBegin, vars, queueVars, indexVars
  <2> QED
    BY <1>5, <2>1
<1>9. CASE PollStep
  <2>1. CASE \/ RetireEnd \/ FlushSkip \/ StartControl \/ ReadsEnd \/ QueuePoll
             \/ QueueError \/ ReapEnd \/ RetireFailedEnd
             \/ \E bytes \in 0..1 : ReapControl(bytes)
    <3>1. UNCHANGED slots /\ Fixed
      BY <2>1 DEF RetireEnd, FlushSkip, StartControl, ReadsEnd, QueuePoll, QueueError,
         ReapEnd, RetireFailedEnd, ReapControl, queueVars, indexVars
    <3> QED
      BY <1>5, <3>1
  <2>2. CASE RetireWrite
    <3> DEFINE h == Head(writes)
    <3>1. h \in Slots /\ Holds(h, "write")
      BY <2>2, RetirePublishes
    <3>2. h \in InFlight /\ slots[h].op = "write"
      BY <3>1 DEF InFlight, Free, Holds
    <3>3. /\ slots' = [slots EXCEPT ![h] = None] /\ Release(slots[h])
          /\ index' = index \/ index' = Apply(index, slots[h].entries)
      BY <2>2 DEF RetireWrite
    <3> HIDE DEF h
    <3> QED
      BY <3>2, <3>3, ReserveRelease
  <2>3. CASE FlushFinish
    <3>1. flush \in Slots /\ Holds(flush, "flush")
      BY <2>3 DEF Inv, Running, FlushFinish, FlushRunnable, FlushSlot, TypeOK, QueueType
    <3>2. slots' = [slots EXCEPT ![flush] = None] /\ Fixed
      BY <2>3 DEF FlushFinish, indexVars
    <3> QED
      BY <1>3, <3>1, <3>2 DEF Holds
  <2>4. CASE FlushSubmit
    <3>1. flush \in Slots /\ Holds(flush, "flush")
      BY <2>4 DEF Inv, Running, FlushSubmit, FlushRunnable, FlushSlot, TypeOK, QueueType
    <3>2. slots' = [slots EXCEPT ![flush].stage = "submitted"] /\ Fixed /\ "submitted" \in Stages
      BY <2>4 DEF FlushSubmit, Stages, indexVars
    <3> QED
      BY <1>4, <3>1, <3>2 DEF Holds
  <2>5. CASE CompleteEmptyRead
    <3>1. Head(ready_reads) \in Slots /\ Holds(Head(ready_reads), "empty")
      <4>1. ~queue_failed /\ ready_reads # <<>> /\ ready_reads \in Seq(Slots)
        BY <2>5 DEF Inv, Running, CompleteEmptyRead, TypeOK, QueueType
      <4>2. 1 \in DOMAIN ready_reads /\ Head(ready_reads) = ready_reads[1]
        BY <4>1, SMT
      <4> QED
        BY <4>1, <4>2, SMT DEF Inv, EmptyReads
    <3>2. slots' = [slots EXCEPT ![Head(ready_reads)] = None] /\ Fixed
      BY <2>5 DEF CompleteEmptyRead, indexVars
    <3> QED
      BY <1>3, <3>1, <3>2 DEF Holds
  <2>6. ASSUME NEW s \in Slots, Reap(s)
        PROVE  ReserveInv'
    <3>1. slots[s] # None
      <4>1. io[s] # "idle" /\ ~queue_failed
        BY <2>6 DEF Inv, Running, Reap, ReapWrite, ReapMetadata, ReapFlush, ReapRead, Pop
      <4> QED
        BY <4>1 DEF Inv, IdleSlots
    <3>2. CASE ReapWrite(s) \/ ReapMetadata(s)
      <4>1. Fixed /\ \E stage \in Stages : slots' = [slots EXCEPT ![s].stage = stage]
        BY <3>2 DEF ReapWrite, ReapMetadata, Pop, Stages, indexVars
      <4> QED
        BY <1>4, <3>1, <4>1
    <3>3. CASE ReapFlush(s) \/ \E result \in {"ok", "err"} : ReapRead(s, result)
      <4>1. Fixed /\ slots' = [slots EXCEPT ![s] = None] /\ slots[s].op # "write"
        BY <3>3 DEF ReapFlush, ReapRead, indexVars
      <4> QED
        BY <1>3, <3>1, <4>1
    <3> QED
      BY <2>6, <3>2, <3>3 DEF Reap
  <2>7. ASSUME NEW s \in Slots, RetireFailed(s)
        PROVE  ReserveInv'
    <3>1. index' = index
      BY <2>7 DEF RetireFailed
    <3>2. CASE slots[s] = None
      <4>1. UNCHANGED slots /\ Fixed
        BY <2>7, <3>1, <3>2 DEF RetireFailed
      <4> QED
        BY <1>5, <4>1
    <3>3. CASE slots[s] # None
      <4>1. slots' = [slots EXCEPT ![s] = None] /\ Release(slots[s]) /\ s \in InFlight
        BY <2>7, <3>3 DEF RetireFailed, InFlight, Free
      <4>2. CASE slots[s].op = "write"
        BY <3>1, <4>1, <4>2, ReserveRelease
      <4>3. CASE slots[s].op # "write"
        <5>1. slots[s].reserved = 0
          BY <4>1, <4>3 DEF ReserveInv, Covered
        <5>2. pending_entries' = pending_entries - 0 /\ pending_new' = pending_new - 0
          BY <4>1, <4>3, <5>1 DEF Release
        <5>3. Fixed
          BY <3>1, <5>2, ReserveTypes, SMT
        <5> QED
          BY <1>3, <3>3, <4>1, <4>3, <5>3
      <4> QED
        BY <4>2, <4>3
    <3> QED
      BY <3>2, <3>3
  <2> QED
    BY <1>9, <2>1, <2>2, <2>3, <2>4, <2>5, <2>6, <2>7 DEF PollStep
<1> QED
  BY <1>6, <1>7, <1>8, <1>9 DEF Next, Owner

\* The counters of reserved records and index places are exactly what the pending writes hold,
\* so no release underflows and none leaks, and the index never outgrows its bound although
\* frames are admitted long before they are published (reserve_entries, retire_writes).
THEOREM ReservationsKept == Spec => []ReservationsHold
<1>1. Init => ReserveInv
  <2> SUFFICES ASSUME Init PROVE ReserveInv
    OBVIOUS
  <2>1. InFlight = {} /\ PendingWrites = {}
    BY DEF Init, InFlight, Free, PendingWrites
  <2>2. SumOf(Lens, {}) = 0 /\ SumOf(Held, {}) = 0
    BY FS_EmptySet, SumUnfold
  <2>3. Sums2 /\ Covered
    BY <2>1, <2>2 DEF Sums2, Covered, Init
  <2>4. DOMAIN index = {} /\ pending_new = 0
    BY SMT DEF Init
  <2>5. IndexBounded
    BY <2>4, FS_EmptySet, PipelineAssumption, SMT DEF IndexBounded
  <2> QED
    BY <2>3, <2>5 DEF ReserveInv
<1>2. ReserveInv => ReservationsHold
  BY BalancedIsSum DEF ReserveInv, Sums2, ReservationsHold
<1> QED
  BY <1>1, <1>2, Invariance, NextReserve, PTL DEF Spec
=============================================================================
