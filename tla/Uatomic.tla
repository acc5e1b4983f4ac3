------------------------------- MODULE Uatomic -------------------------------
(***************************************************************************)
(* The read-modify-write operations of include/urcu/uatomic/: single       *)
(* instructions (x86.h), compiler built-ins and a loop around them         *)
(* (generic.h without an architecture's cmpxchg, builtins-generic.h),      *)
(* loops on the architecture's cmpxchg (generic.h over sparc64.h),         *)
(* load-reserve and store-conditional (ppc.h), compare-and-swap with an    *)
(* uninitialized first comparand (s390.h).  The word in memory has two     *)
(* halves and an operation works on a half or on the word.                 *)
(***************************************************************************)
EXTENDS Integers, FiniteSets, Bitwise

CONSTANTS Threads,
          Bits,     \* of a half
          Values,   \* operands
          Archs,    \* of "x86", "builtin", "sparc64", "ppc", "s390"
          NoReq, NoRes

VARIABLES arch,     \* the architecture of this build
          mem,      \* the two halves
          reserved, \* threads that hold a reservation
          pc, loc   \* control point; request r, value read v, value returned

vars == <<arch, mem, reserved, pc, loc>>

Ops == {"cmpxchg", "xchg", "add_return", "and", "or"}

(* The whole word, or one half *)
Lens == {"word", "lo", "hi"}
Modulus(r) == IF r.len = "word" THEN 2^(2 * Bits) ELSE 2^Bits
Load(m, r) == IF r.len = "word" THEN m.lo + 2^Bits * m.hi ELSE m[r.len]
Store(m, r, v) == IF r.len = "word" THEN [lo |-> v % 2^Bits, hi |-> v \div 2^Bits]
                  ELSE [m EXCEPT ![r.len] = v]

(* What an operation makes of the old value, truncated to the operand's    *)
(* width; caa_cast_long_keep_sign() has widened the argument.              *)
Compute(r, v) ==
  CASE r.op = "cmpxchg" -> r.new % Modulus(r)
    [] r.op = "xchg" -> r.arg % Modulus(r)
    [] r.op = "add_return" -> (v + r.arg) % Modulus(r)
    [] r.op = "and" -> v & (r.arg % Modulus(r))
    [] r.op = "or" -> v | (r.arg % Modulus(r))

Matches(r, v) == r.op # "cmpxchg" \/ v = r.arg % Modulus(r)
After(m, r) == IF Matches(r, Load(m, r)) THEN Store(m, r, Compute(r, Load(m, r))) ELSE m
Result(m, r) == CASE r.op \in {"cmpxchg", "xchg"} -> Load(m, r)
                  [] r.op = "add_return" -> Compute(r, Load(m, r))
                  [] OTHER -> 0

Requests == [op : {"cmpxchg"}, len : Lens, arg : Values, new : Values]
            \cup [op : Ops \ {"cmpxchg"}, len : Lens, arg : Values, new : {0}]

Init == /\ arch \in Archs
        /\ mem = [lo |-> 0, hi |-> 0]
        /\ reserved = {}
        /\ pc = [t \in Threads |-> "idle"]
        /\ loc = [t \in Threads |-> [r |-> NoReq, v |-> 0, ret |-> NoRes]]

(* How an architecture does an operation. *)
X86(op) == "instruction"
Builtin(op) == IF op = "xchg" THEN "cas" ELSE "instruction"
Sparc64(op) == IF op = "cmpxchg" THEN "instruction" ELSE "cas"
Ppc(op) == IF op \in {"and", "or"} THEN "cas" ELSE "llsc"
S390(op) == CASE op = "cmpxchg" -> "instruction"
              [] op = "xchg" -> "uninitialized"
              [] OTHER -> "cas"
How(op) == CASE arch = "x86" -> X86(op) [] arch = "builtin" -> Builtin(op)
             [] arch = "sparc64" -> Sparc64(op) [] arch = "ppc" -> Ppc(op)
             [] arch = "s390" -> S390(op)

Invoke(t) ==
  /\ pc[t] = "idle"
  /\ \E r \in Requests :
       /\ pc' = [pc EXCEPT ![t] = How(r.op)]
       /\ loc' = [loc EXCEPT ![t] = [r |-> r, v |-> 0, ret |-> NoRes]]
  /\ UNCHANGED <<arch, mem, reserved>>

(* A store breaks every reservation of the word. *)
Done(t, m, ret) ==
  /\ mem' = m
  /\ reserved' = IF m # mem THEN {} ELSE reserved \ {t}
  /\ pc' = [pc EXCEPT ![t] = "done"]
  /\ loc' = [loc EXCEPT ![t].ret = ret, ![t].v = 0]

(* lock-prefixed instructions, __sync built-ins, cas and cs *)
Instruction(t) ==
  /\ pc[t] = "instruction"
  /\ Done(t, After(mem, loc[t].r), Result(mem, loc[t].r))
  /\ UNCHANGED arch

(* generic.h: load, then cmpxchg until the value has not changed between.  *)
CasLoad(t) ==
  /\ pc[t] = "cas"
  /\ loc' = [loc EXCEPT ![t].v = Load(mem, loc[t].r)]
  /\ pc' = [pc EXCEPT ![t] = "cas_try"]
  /\ UNCHANGED <<arch, mem, reserved>>

(* Variant: what was loaded is taken for what is there. *)
CasTryBlind(t) ==
  /\ pc[t] = "cas_try"
  /\ LET r == loc[t].r IN
       Done(t, Store(mem, r, Compute(r, loc[t].v)), Result(Store(mem, r, loc[t].v), r))
  /\ UNCHANGED arch

CasTry(t) ==
  /\ pc[t] = "cas_try"
  /\ LET r == loc[t].r
         v == Load(mem, r)
     IN IF v = loc[t].v
        THEN Done(t, Store(mem, r, Compute(r, v)), Result(mem, r))
        ELSE /\ loc' = [loc EXCEPT ![t].v = v]
             /\ UNCHANGED <<mem, reserved, pc>>
  /\ UNCHANGED arch

(* ppc.h: load and reserve; a cmpxchg whose comparison fails is over ...   *)
LoadReserve(t) ==
  /\ pc[t] = "llsc"
  /\ LET r == loc[t].r
         v == Load(mem, r)
     IN IF ~Matches(r, v) THEN Done(t, mem, v)
        ELSE /\ loc' = [loc EXCEPT ![t].v = v]
             /\ reserved' = reserved \cup {t}
             /\ pc' = [pc EXCEPT ![t] = "llsc_store"]
             /\ UNCHANGED mem
  /\ UNCHANGED arch

(* ... and the store is conditional on the reservation, which may be lost. *)
StoreConditional(t) ==
  /\ pc[t] = "llsc_store"
  /\ \/ /\ t \in reserved
        /\ LET r == loc[t].r
               v == Compute(r, loc[t].v)
           IN Done(t, Store(mem, r, v), IF r.op = "add_return" THEN v ELSE loc[t].v)
     \/ /\ pc' = [pc EXCEPT ![t] = "llsc"]
        /\ reserved' = reserved \ {t}
        /\ loc' = [loc EXCEPT ![t].v = 0]
        /\ UNCHANGED mem
  /\ UNCHANGED arch

(* s390.h exchange: the register compared first was never set. *)
CsUninitialized(t) ==
  /\ pc[t] = "uninitialized"
  /\ \E v \in Values :
       /\ loc' = [loc EXCEPT ![t].v = v % Modulus(loc[t].r)]
       /\ pc' = [pc EXCEPT ![t] = "cas_try"]
  /\ UNCHANGED <<arch, mem, reserved>>

Return(t) ==
  /\ pc[t] = "done"
  /\ pc' = [pc EXCEPT ![t] = "idle"]
  /\ loc' = [loc EXCEPT ![t] = [r |-> NoReq, v |-> 0, ret |-> NoRes]]
  /\ UNCHANGED <<arch, mem, reserved>>

Next == \E t \in Threads : \/ Invoke(t) \/ Instruction(t) \/ CasLoad(t) \/ CasTry(t)
                           \/ LoadReserve(t) \/ StoreConditional(t)
                           \/ CsUninitialized(t) \/ Return(t)
Spec == Init /\ [][Next]_vars

-----------------------------------------------------------------------------
Pend == [t \in Threads |-> IF pc[t] = "done" THEN NoReq ELSE loc[t].r]
Out == [t \in Threads |-> loc[t].ret]
Atomic == INSTANCE AtomicWord WITH pend <- Pend, out <- Out

(* Every operation, on every architecture and for every operand width,     *)
(* takes effect at once on exactly its operand, neighbours untouched.      *)
ImplementsAtomicWord == Atomic!Spec
=============================================================================
