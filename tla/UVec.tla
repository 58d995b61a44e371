-------------------------------- MODULE UVec --------------------------------
(***************************************************************************)
(* ulib's universal vector (eda-infra-rs/ulib/src/uvec.rs): one vector     *)
(* with a buffer per device, copied between devices on demand.             *)
(*                                                                         *)
(* valid_flag says which buffers hold the content.  A mutable access makes *)
(* one device valid and invalidates the others; a shared access may copy   *)
(* to one more device while other threads read, under a lock per receiving *)
(* device.  The borrow checker keeps mutable and shared accesses apart.    *)
(* `written` is a history variable: what the owner has put into the        *)
(* vector, with Junk where the documentation leaves elements unspecified.  *)
(***************************************************************************)
EXTENDS Integers

CONSTANTS
  NumDevices,  \* CPU is 0, CUDA(c) is c + 1
  Thread,      \* threads that share the vector by reference
  Value,       \* element values
  Zero,        \* the zeroed element
  Junk,        \* uninitialised memory
  NoBuffer,    \* None
  Nobody,      \* an unlocked mutex
  MaxLen,      \* bound on the lengths callers ask for
  Careful      \* callers keep to the calls that preserve the content

Device == 0 .. NumDevices - 1
CPU    == 0
Elem   == Value \cup {Junk}

Heuristic(n) == (3 * n + 1) \div 2  \* realloc_heuristic: round(1.5 n)
Buffer       == UNION {[1 .. n -> Elem] : n \in 0 .. Heuristic(MaxLen)}

ASSUME UVecAssumption ==
  /\ NumDevices \in Nat \ {0}
  /\ MaxLen \in Nat
  /\ Zero \in Value
  /\ Careful \in BOOLEAN
  /\ Nobody \notin Thread
  /\ NoBuffer \notin Buffer

VARIABLES
  buf,       \* data_cpu, data_cuda: NoBuffer or a function over 1 .. size
  valid,     \* the devices whose valid_flag is set
  len, capacity,
  lock,      \* read_locks: the thread holding each
  written,
  pc,        \* where each reader is in schedule_device_read_ro
  want,      \* the device each reader asked for
  panicked   \* an unwrap, expect or slice bound has failed

vars == <<buf, valid, len, capacity, lock, written, pc, want, panicked>>
data == <<buf, valid, len, capacity, written>>
readers == <<lock, pc, want>>

Blank(n) == [i \in 1 .. n |-> Junk]

(* Mutant: the buffers of the other devices survive a reallocation. *)
KeepOthers(d, b) == [buf EXCEPT ![d] = b]

OnlyOn(d, b)  == [e \in Device |-> IF e = d THEN b ELSE NoBuffer]
FirstValid    == CHOOSE d \in valid : \A e \in valid : d <= e  \* device_valid

(* Mutant: the last element is not copied. *)
CopiedButLast(dst, src) == [i \in DOMAIN dst |-> IF i < len THEN src[i] ELSE dst[i]]

(* dst[..len].copy_from(src[..len]) *)
Copied(dst, src) == [i \in DOMAIN dst |-> IF i <= len THEN src[i] ELSE dst[i]]

(* The promised content after a change of the length. *)
Resized(n) == [i \in 1 .. n |-> IF i <= len THEN written[i] ELSE Junk]

Init ==
  /\ buf = [d \in Device |-> NoBuffer]
  /\ valid = {}
  /\ len = 0 /\ capacity = 0
  /\ lock = [d \in Device |-> Nobody]
  /\ written = Blank(0)
  /\ pc = [t \in Thread |-> "idle"]
  /\ want = [t \in Thread |-> CPU]
  /\ panicked = FALSE

----------------------------------------------------------------------------
(* schedule_device_read: allocate if there is no buffer, copy from the     *)
(* first valid device unless the capacity is 0.                            *)
Holds(d, n)    == buf[d] # NoBuffer /\ 1 .. n \subseteq DOMAIN buf[d]
(* Mutant: a buffer is made for the elements, not for the capacity. *)
AllocatedForLen(d) == IF buf[d] = NoBuffer THEN Blank(len) ELSE buf[d]

Allocated(d)   == IF buf[d] = NoBuffer THEN Blank(capacity) ELSE buf[d]
Fetchable(d)   == \/ d \in valid \/ capacity = 0
                  \/ /\ valid # {} /\ Holds(FirstValid, len)
                     /\ 1 .. len \subseteq DOMAIN Allocated(d)
Fetched(d)     == IF d \in valid THEN buf[d]
                  ELSE IF capacity = 0 THEN Allocated(d)
                  ELSE Copied(Allocated(d), buf[FirstValid])
AfterFetch(d)  == [buf EXCEPT ![d] = Fetched(d)]

(* &mut self: the borrow checker rules out any reader. *)
Exclusive == ~panicked /\ \A t \in Thread : pc[t] = "idle"

Panic == panicked' = TRUE /\ UNCHANGED <<data, readers>>
Calm  == UNCHANGED <<lock, pc, want, panicked>>

(* *v = UVec::new_zeroed_with_capacity(n, cap, d).  On the CPU the box     *)
(* that is built from cap allocated elements has only n of them.           *)
NewZeroed(n, cap, d) ==
  /\ Exclusive
  /\ n <= cap
  /\ Careful => n = cap
  /\ buf' = OnlyOn(d, [i \in 1 .. (IF d = CPU THEN n ELSE cap) |-> Zero])
  /\ valid' = {d}
  /\ len' = n /\ capacity' = cap
  /\ written' = [i \in 1 .. n |-> Zero]
  /\ Calm

NewUninitialized(n, cap, d) ==
  /\ Exclusive
  /\ n <= cap
  /\ buf' = OnlyOn(d, Blank(cap))
  /\ valid' = {d}
  /\ len' = n /\ capacity' = cap
  /\ written' = Blank(n)
  /\ Calm

(* From<Box<[T]>>, From<Vec<T>>, FromIterator *)
FromBox(n, value) ==
  /\ Exclusive
  /\ buf' = OnlyOn(CPU, [i \in 1 .. n |-> value])
  /\ valid' = {CPU}
  /\ len' = n /\ capacity' = n
  /\ written' = [i \in 1 .. n |-> value]
  /\ Calm

(* The elements in changed are set to value through as_mut, IndexMut, fill *)
(* or a kernel's mutable pointer (schedule_device_write).  as_mut_uptr     *)
(* returns null for an empty capacity; as_mut goes on.                     *)
Write(d, changed, value) ==
  /\ Exclusive
  /\ capacity > 0 \/ d = CPU
  /\ IF Fetchable(d) /\ (d \in valid => Holds(d, len))
     THEN /\ buf' = [buf EXCEPT ![d] =
                       [i \in DOMAIN Fetched(d) |->
                          IF i \in changed THEN value ELSE Fetched(d)[i]]]
          /\ valid' = {d}
          /\ written' = [i \in 1 .. len |-> IF i \in changed THEN value ELSE written[i]]
          /\ UNCHANGED <<len, capacity>>
          /\ Calm
     ELSE Panic

(* The caller vouches for the elements that become visible. *)
SetLen(n) ==
  /\ Exclusive
  /\ n <= capacity
  /\ len' = n
  /\ written' = Resized(n)
  /\ UNCHANGED <<buf, valid, capacity>>
  /\ Calm

(* realloc_uninit_preserve: whatever d's buffer holds survives, alone. *)
Moved(d, cap) == OnlyOn(d, [i \in 1 .. cap |-> IF i <= len THEN buf[d][i] ELSE Junk])

Reserve(additional, d) ==
  /\ Exclusive
  /\ len + additional > capacity
  /\ Careful => d \in valid
  /\ IF Holds(d, len)
     THEN /\ capacity' = Heuristic(len + additional)
          /\ buf' = Moved(d, capacity')
          /\ valid' = {d}
          /\ UNCHANGED <<len, written>>
          /\ Calm
     ELSE Panic

ResizeNoPreserve(n, d) ==
  /\ Exclusive
  /\ IF capacity < n
     THEN /\ capacity' = Heuristic(n)
          /\ buf' = OnlyOn(d, Blank(capacity'))
          /\ valid' = {d}
     ELSE UNCHANGED <<buf, valid, capacity>>
  /\ len' = n
  /\ written' = Blank(n)
  /\ Calm

(* The content is fetched first, but not that of an empty vector. *)
ResizePreserve(n, d) ==
  LET kept == IF len # 0 THEN AfterFetch(d) ELSE buf
  IN  /\ Exclusive
      /\ Careful => len # 0 \/ buf[d] # NoBuffer
      /\ IF /\ len # 0 => Fetchable(d)
            /\ capacity < n => kept[d] # NoBuffer /\ 1 .. len \subseteq DOMAIN kept[d]
         THEN /\ IF capacity < n
                 THEN /\ capacity' = Heuristic(n)
                      /\ buf' = OnlyOn(d, [i \in 1 .. capacity' |->
                                             IF i <= len THEN kept[d][i] ELSE Junk])
                 ELSE buf' = kept /\ UNCHANGED capacity
              /\ len' = n
              /\ valid' = {d}
              /\ written' = Resized(n)
              /\ Calm
         ELSE Panic

(* v = v.clone(): the valid buffers are duplicated, up to len on a GPU. *)
Clone ==
  /\ Exclusive
  /\ IF \A d \in valid \ {CPU} : Holds(d, len)
     THEN /\ buf' = [d \in Device |->
                       IF d \notin valid THEN NoBuffer
                       ELSE IF d = CPU THEN buf[d]
                       ELSE [i \in DOMAIN buf[d] |-> IF i <= len THEN buf[d][i] ELSE Junk]]
          /\ UNCHANGED <<valid, len, capacity, written>>
          /\ Calm
     ELSE Panic

(* v = Vec::from(v).into(): the whole host buffer becomes the content. *)
ThroughVec ==
  LET box  == Fetched(CPU)
      size == CHOOSE k \in 0 .. capacity : DOMAIN box = 1 .. k
  IN  /\ Exclusive
      /\ Careful => len = capacity
      /\ IF Fetchable(CPU) /\ box # NoBuffer
         THEN /\ buf' = OnlyOn(CPU, box)
              /\ valid' = {CPU}
              /\ len' = size /\ capacity' = size
              /\ written' = Resized(size)
              /\ Calm
         ELSE Panic

----------------------------------------------------------------------------
(* schedule_device_read_ro, by a thread that shares the vector: as_ref,    *)
(* Deref, Index and iteration ask for the CPU, as_uptr for any device (it  *)
(* returns null for an empty capacity).                                    *)
Goto(t, l) == pc' = [pc EXCEPT ![t] = l]

Ask(t, d) ==
  /\ ~panicked
  /\ pc[t] = "idle"
  /\ capacity > 0 \/ d = CPU
  /\ IF d \in valid => Holds(d, len)
     THEN /\ want' = [want EXCEPT ![t] = d]
          /\ Goto(t, IF d \in valid THEN "holding" ELSE "waiting")
          /\ UNCHANGED <<data, lock, panicked>>
     ELSE Panic

Lock(t) ==
  /\ ~panicked
  /\ pc[t] = "waiting"
  /\ lock[want[t]] = Nobody
  /\ lock' = [lock EXCEPT ![want[t]] = t]
  /\ Goto(t, "locked")
  /\ UNCHANGED <<data, want, panicked>>

(* Mutant: the flag is set before the copy is made. *)
PrepareMarksFirst(t) ==
  LET d == want[t]
  IN  /\ ~panicked
      /\ pc[t] = "locked"
      /\ IF Fetchable(d)
         THEN /\ buf' = IF d \in valid THEN buf ELSE [buf EXCEPT ![d] = Allocated(d)]
              /\ valid' = valid \cup {d}
              /\ Goto(t, IF d \in valid \/ capacity = 0 THEN "unlocking" ELSE "copying")
              /\ UNCHANGED <<len, capacity, written, lock, want, panicked>>
         ELSE Panic

(* The flag is tested again under the lock. *)
Prepare(t) ==
  LET d == want[t]
  IN  /\ ~panicked
      /\ pc[t] = "locked"
      /\ IF Fetchable(d)
         THEN /\ buf' = IF d \in valid THEN buf ELSE [buf EXCEPT ![d] = Allocated(d)]
              /\ Goto(t, IF d \in valid \/ capacity = 0 THEN "unlocking" ELSE "copying")
              /\ UNCHANGED <<valid, len, capacity, written, lock, want, panicked>>
         ELSE Panic

Copy(t) ==
  /\ ~panicked
  /\ pc[t] = "copying"
  /\ buf' = [buf EXCEPT ![want[t]] = Copied(@, buf[FirstValid])]
  /\ Goto(t, "copied")
  /\ UNCHANGED <<valid, len, capacity, written, lock, want, panicked>>

(* Mutant: the copy is made but not announced. *)
PublishNothing(t) ==
  /\ ~panicked
  /\ pc[t] = "copied"
  /\ Goto(t, "unlocking")
  /\ UNCHANGED <<data, lock, want, panicked>>

Publish(t) ==
  /\ ~panicked
  /\ pc[t] = "copied"
  /\ valid' = valid \cup {want[t]}
  /\ Goto(t, "unlocking")
  /\ UNCHANGED <<buf, len, capacity, written, lock, want, panicked>>

Unlock(t) ==
  /\ ~panicked
  /\ pc[t] = "unlocking"
  /\ lock' = [lock EXCEPT ![want[t]] = Nobody]
  /\ Goto(t, "holding")
  /\ UNCHANGED <<data, want, panicked>>

(* The shared reference goes out of scope. *)
Drop(t) ==
  /\ ~panicked
  /\ pc[t] = "holding"
  /\ Goto(t, "idle")
  /\ UNCHANGED <<data, lock, want, panicked>>

Read(t) == Lock(t) \/ Prepare(t) \/ Copy(t) \/ Publish(t) \/ Unlock(t)

Construct ==
  \/ \E n, cap \in 0 .. MaxLen, d \in Device : NewZeroed(n, cap, d) \/ NewUninitialized(n, cap, d)
  \/ \E n \in 0 .. MaxLen, value \in Value : FromBox(n, value)

Own ==
  \/ \E d \in Device, changed \in SUBSET (1 .. len), value \in Value : Write(d, changed, value)
  \/ \E n \in 0 .. MaxLen : SetLen(n)
  \/ \E n \in 1 .. MaxLen, d \in Device : len + n <= MaxLen /\ Reserve(n, d)
  \/ \E n \in 0 .. MaxLen, d \in Device : ResizeNoPreserve(n, d) \/ ResizePreserve(n, d)
  \/ Clone \/ ThroughVec

Share == \E t \in Thread : (\E d \in Device : Ask(t, d)) \/ Read(t) \/ Drop(t)

Next == Construct \/ Own \/ Share

Spec == Init /\ [][Next]_vars

(* A thread that has asked for the data is not descheduled for ever. *)
FairSpec == Spec /\ \A t \in Thread : WF_vars(Read(t))

----------------------------------------------------------------------------
(* Type correctness of the vector's fields and of each reader's position;  *)
(* in particular every allocated buffer has room for capacity elements     *)
(* (uvec.rs, the comment on resize_uninit_nopreserve: "all allocated       *)
(* buffers for all devices must all have the same length (= capacity)").   *)
TypeOK ==
  /\ buf \in [Device -> {NoBuffer} \cup [1 .. capacity -> Elem]]
  /\ valid \in SUBSET Device
  /\ len \in 0 .. Heuristic(MaxLen)
  /\ capacity \in 0 .. Heuristic(MaxLen)
  /\ written \in Buffer
  /\ lock \in [Device -> Thread \cup {Nobody}]
  /\ pc \in [Thread -> {"idle", "waiting", "locked", "copying", "copied", "unlocking", "holding"}]
  /\ want \in [Thread -> Device]
  /\ panicked \in BOOLEAN

(* A buffer that agrees with everything the owner has written. *)
HasContent(d) ==
  /\ Holds(d, len)
  /\ \A i \in 1 .. len : written[i] # Junk => buf[d][i] = written[i]

(* Every device marked valid has the content, wherever it was written and  *)
(* whichever way the vector was resized meanwhile (uvec.rs, the comment on *)
(* valid_flag).                                                            *)
Coherent ==
  ~panicked => DOMAIN written = 1 .. len /\ \A d \in valid : HasContent(d)

(* None of the unwraps, expects and slice bounds of uvec.rs fails.         *)
NoPanic == ~panicked

(* A thread that has to wait for the copy gets the data, although the      *)
(* mutex is not fair: once the copy is made nobody takes the lock again.   *)
(* (An empty vector never becomes valid, so its readers have no such       *)
(* guarantee.)                                                             *)
EveryReadReturns ==
  \A t \in Thread : pc[t] = "waiting" /\ capacity > 0 ~> pc[t] = "holding"

(* The vector is one vector: readers on all devices see what was written,  *)
(* and the slice a reader was given does not change under its hands.       *)
Slice(d) == [i \in 1 .. len |-> buf[d][i]]

Vector == INSTANCE UVector WITH
  NotReading <- NoBuffer,
  slice <- [t \in Thread |-> IF pc[t] = "holding" THEN Slice(want[t]) ELSE NoBuffer]

ImplementsVector == Vector!Spec
============================================================================
