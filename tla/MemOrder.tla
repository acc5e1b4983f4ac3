------------------------------ MODULE MemOrder ------------------------------
(***************************************************************************)
(* The barriers that uatomic loads and stores emit for each memory order   *)
(* when the compiler has no C11 memory model (uatomic/generic.h, x86.h),   *)
(* and the publication of pointers built on them (static/pointer.h,        *)
(* urcu-pointer.c).  Two threads run a short program on a machine that     *)
(* may execute a memory access before an earlier one: x86 a load before a  *)
(* store, the others anything that no barrier or dependency forbids.       *)
(***************************************************************************)
EXTENDS Integers, Sequences

CONSTANTS Archs   \* of "x86", "weak"

VARIABLES arch, test, mem, done, reg
vars == <<arch, test, mem, done, reg>>

MB == [k |-> "mb", a |-> "", v |-> 0]
Access(k, a, v) == [k |-> k, a |-> a, v |-> v]
Fence(b) == IF b THEN <<MB>> ELSE <<>>

(* x86: compiler barriers before, and the barrier of a sequentially        *)
(* consistent access comes after the store only.                           *)
X86Before(op, mo) == FALSE

X86After(op, mo) == mo = "SEQ_CST_FENCE" \/ (mo = "SEQ_CST" /\ op = "store")

(* Variant: nothing before a release store. *)
BeforeMoAcquireOnly(op, mo) ==
  IF arch = "x86" THEN X86Before(op, mo) ELSE mo \in {"SEQ_CST_FENCE", "SEQ_CST"}

(* _cmm_compat_c11_smp_mb__before_mo(): whether a barrier comes before ... *)
BeforeMo(op, mo) ==
  IF arch = "x86" THEN X86Before(op, mo)
  ELSE mo \in {"SEQ_CST_FENCE", "SEQ_CST", "ACQ_REL", "RELEASE"}

(* ... and _cmm_compat_c11_smp_mb__after_mo() *)
AfterMo(op, mo) ==
  IF arch = "x86" THEN X86After(op, mo)
  ELSE mo \in {"SEQ_CST_FENCE", "SEQ_CST", "ACQUIRE", "CONSUME", "ACQ_REL"}

Uatomic(op, k, a, v, mo) == Fence(BeforeMo(op, mo)) \o <<Access(k, a, v)>> \o Fence(AfterMo(op, mo))

uatomic_load(a, mo) == Uatomic("load", "ld", a, 0, mo)
uatomic_store(a, v, mo) == Uatomic("store", "st", a, v, mo)
(* "All builtins used are documented to be considered a full barrier",     *)
(* and so are instructions with a lock prefix.                             *)
uatomic_xchg(a, v) == <<MB, Access("st", a, v), MB>>

(* A release store, unless the pointer is a constant NULL.                 *)
rcu_assign_pointer(a, v) == uatomic_store(a, v, IF v = 0 THEN "RELAXED" ELSE "RELEASE")
rcu_dereference(a) == uatomic_load(a, "CONSUME")

(* rcu_dereference_sym(): the caller has loaded the pointer. *)
rcu_dereference_sym(a) == <<Access("ld", a, 0)>> \o Fence(arch # "x86")

Plain(k, a, v) == <<Access(k, a, v)>>

(* The programs: publication of x through p, each way; store buffering;    *)
(* a critical section handed over by a release store.                      *)
Program(n, t) ==
  CASE n = "pointer" -> IF t = 1 THEN Plain("st", "x", 1) \o rcu_assign_pointer("p", 1)
                        ELSE rcu_dereference("p") \o Plain("ld", "x", 0)
    [] n = "pointer_sym" -> IF t = 1 THEN Plain("st", "x", 1) \o rcu_assign_pointer("p", 1)
                            ELSE rcu_dereference_sym("p") \o Plain("ld", "x", 0)
    [] n = "acquire" -> IF t = 1 THEN Plain("st", "x", 1) \o uatomic_xchg("p", 1)
                        ELSE uatomic_load("p", "ACQUIRE") \o Plain("ld", "x", 0)
    [] n = "seq_cst" -> IF t = 1 THEN uatomic_store("x", 1, "SEQ_CST") \o uatomic_load("p", "SEQ_CST")
                        ELSE uatomic_store("p", 1, "SEQ_CST") \o uatomic_load("x", "SEQ_CST")
    [] n = "fence" -> IF t = 1 THEN uatomic_store("x", 1, "SEQ_CST_FENCE") \o Plain("ld", "p", 0)
                      ELSE uatomic_xchg("p", 1) \o Plain("ld", "x", 0)
    [] n = "release" -> IF t = 1 THEN Plain("ld", "x", 0) \o uatomic_store("p", 1, "RELEASE")
                        ELSE uatomic_load("p", "ACQUIRE") \o Plain("st", "x", 1)

Tests == {"pointer", "pointer_sym", "acquire", "seq_cst", "fence", "release"}

Init == /\ arch \in Archs /\ test \in Tests
        /\ mem = [a \in {"x", "p"} |-> 0]
        /\ done = [t \in 1..2 |-> {}]
        /\ reg = [t \in 1..2 |-> <<>>]

(* Whether the machine may execute the later access j first. *)
MayPass(i, j) ==
  /\ i.k # "mb" /\ j.k # "mb" /\ i.a # j.a
  /\ arch = "x86" => i.k = "st" /\ j.k = "ld"

Step(t) ==
  LET prog == Program(test, t) IN
  \E j \in DOMAIN prog \ done[t] :
    /\ \A i \in 1..(j - 1) : i \in done[t] \/ MayPass(prog[i], prog[j])
    /\ done' = [done EXCEPT ![t] = @ \cup {j}]
    /\ mem' = IF prog[j].k = "st" THEN [mem EXCEPT ![prog[j].a] = prog[j].v] ELSE mem
    /\ reg' = IF prog[j].k = "ld" THEN [reg EXCEPT ![t] = Append(@, <<prog[j].a, mem[prog[j].a]>>)]
              ELSE reg
    /\ UNCHANGED <<arch, test>>

Next == \E t \in 1..2 : Step(t)
Spec == Init /\ [][Next]_vars

Saw(t, a, v) == \E i \in DOMAIN reg[t] : reg[t][i] = <<a, v>>

(* Who sees a pointer, or a flag stored with release order, sees what was  *)
(* written before it; what was read before it cannot see what is written   *)
(* after.                                                                  *)
PublishedBeforeSeen ==
  /\ test \in {"pointer", "pointer_sym", "acquire"} => ~(Saw(2, "p", 1) /\ Saw(2, "x", 0))
  /\ test = "release" => ~(Saw(2, "p", 1) /\ Saw(1, "x", 1))

(* Of two threads that each store and then read what the other one stores, *)
(* one sees the other's store.                                             *)
StoreLoadOrdered ==
  test \in {"seq_cst", "fence"} => ~(Saw(1, "p", 0) /\ Saw(2, "x", 0))
=============================================================================
