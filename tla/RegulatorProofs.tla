-------------------------- MODULE RegulatorProofs --------------------------
(***************************************************************************)
(* Theorems about Regulator for every part of u16 and any messages.        *)
(*                                                                         *)
(* The argument: where nothing wraps, each division rounds down by less    *)
(* than its divisor.  Below 798 mV the subtraction wraps, from 21313 mV    *)
(* on the field does, and from 3200 mA on the limit does.                  *)
(***************************************************************************)
EXTENDS Regulator, TLAPS

\* What the reference is worth that a code sets, in 100 nV.
Worth(code) == 450000 + 5645 * code

\* The whole millivolts of a reference: 44 and less below 798 mV, and 1202 and
\* more beyond 21312 mV.
LEMMA MultiplyRange ==
  ASSUME NEW v \in Nat, v <= 65535
  PROVE  /\ Multiply(v) \in Nat /\ Multiply(v) <= 3696
         /\ 10000 * Multiply(v) <= 564 * v
         /\ 564 * v < 10000 * Multiply(v) + 10000
         /\ v < 798 <=> Multiply(v) < 45
         /\ v > 21312 <=> Multiply(v) > 1201
  BY DEF Multiply

\* A subtraction that does not wrap: the code is the number of whole steps.
LEMMA CodeOf ==
  ASSUME NEW v \in Nat, 798 <= v, v <= 65535
  PROVE  /\ VRefCode(v) \in Nat /\ VRefCode(v) <= 6547
         /\ 5645 * VRefCode(v) <= 10000 * Multiply(v) - 450000
         /\ 10000 * Multiply(v) - 450000 < 5645 * VRefCode(v) + 5645
<1>1. Multiply(v) \in Nat /\ 45 <= Multiply(v) /\ Multiply(v) <= 3696
  BY MultiplyRange
<1>2. (Multiply(v) * 250000 - 11250000) % 1073741824
        = Multiply(v) * 250000 - 11250000
  BY <1>1
<1>3. PICK q \in Nat : q = (Multiply(v) * 250000 - 11250000) \div 141125
  BY <1>1
<1>4. /\ q <= 6547
      /\ 5645 * q <= 10000 * Multiply(v) - 450000
      /\ 10000 * Multiply(v) - 450000 < 5645 * q + 5645
  <2>1. PICK n \in Nat : n = Multiply(v) * 250000 - 11250000
    BY <1>1
  <2>2. 141125 * q <= n /\ n < 141125 * q + 141125
    BY <1>3, <2>1
  <2> QED
    BY <1>1, <2>1, <2>2
<1>5. VRefCode(v) = q
  <2>1. VRefCode(v) = U16(q)
    BY <1>2, <1>3 DEF VRefCode
  <2> QED
    BY <1>4, <2>1 DEF U16
<1> QED
  BY <1>4, <1>5

\* One that wraps gives a code of about half the field, far above the setting.
LEMMA CodeWraps ==
  ASSUME NEW v \in Nat, v < 798
  PROVE  VRefCode(v) \in Nat /\ 7528 <= VRefCode(v) /\ VRefCode(v) <= 7606
<1>1. Multiply(v) \in Nat /\ Multiply(v) <= 44
  BY MultiplyRange
<1>2. (Multiply(v) * 250000 - 11250000) % 1073741824
        = Multiply(v) * 250000 + 1062491824
  BY <1>1
<1>3. PICK q \in Nat : q = (Multiply(v) * 250000 + 1062491824) \div 141125
  BY <1>1
<1>4. 7528 <= q /\ q <= 7606
  BY <1>1, <1>3
<1> QED
  BY <1>2, <1>3, <1>4 DEF VRefCode, U16

\* The reference that is set for v is at most what is asked for, and close to
\* it, where nothing wraps, and only there.
LEMMA ReferenceOf ==
  ASSUME NEW v \in Nat, v <= 65535, NEW field, field = VrefField(VRefCode(v))
  PROVE  /\ v >= 798 => Worth(field) <= 564 * v
         /\ (Worth(field) <= 564 * v /\ 564 * v - Worth(field) < 10000 + 5645)
              <=> 798 <= v /\ v <= 21312
<1>1. CASE v < 798
  <2>1. field \in Nat /\ 1384 <= field
    BY <1>1, CodeWraps DEF VrefField
  <2> QED
    BY <1>1, <2>1 DEF Worth
<1>2. CASE 798 <= v /\ v <= 21312
  <2>1. Multiply(v) \in Nat /\ Multiply(v) <= 1201
    BY <1>2, MultiplyRange
  <2>2. /\ VRefCode(v) \in Nat
        /\ 5645 * VRefCode(v) <= 10000 * Multiply(v) - 450000
        /\ 10000 * Multiply(v) - 450000 < 5645 * VRefCode(v) + 5645
    BY <1>2, CodeOf
  <2>3. field = VRefCode(v)
    BY <2>1, <2>2 DEF VrefField
  <2>4. 10000 * Multiply(v) <= 564 * v /\ 564 * v < 10000 * Multiply(v) + 10000
    BY MultiplyRange
  <2> QED
    BY <1>2, <2>1, <2>2, <2>3, <2>4 DEF Worth
<1>3. CASE 21312 < v
  <2>1. Multiply(v) \in Nat /\ 1202 <= Multiply(v)
    BY <1>3, MultiplyRange
  <2>2. /\ VRefCode(v) \in Nat
        /\ 5645 * VRefCode(v) <= 10000 * Multiply(v) - 450000
        /\ 10000 * Multiply(v) - 450000 < 5645 * VRefCode(v) + 5645
    BY <1>3, CodeOf
  <2>3. field \in Nat /\ field <= VRefCode(v) - 2048
    BY <2>1, <2>2 DEF VrefField
  <2>4. 10000 * Multiply(v) <= 564 * v
    BY MultiplyRange
  <2> QED
    BY <1>3, <2>1, <2>2, <2>3, <2>4 DEF Worth
<1> QED
  BY <1>1, <1>2, <1>3

\* The limit in steps of 25 mA, where eight and seven bits are enough.
LEMMA LimitOf ==
  ASSUME NEW i \in Nat, i <= 65535, NEW field, field = LimitField(LimitValue(i))
  PROVE  /\ 25 * field <= i
         /\ i - 25 * field < 25 <=> i < 3200
<1>1. PICK q \in Nat : q = (i * 20) \div 500
  OBVIOUS
<1>2. 25 * q <= i /\ i < 25 * q + 25
  BY <1>1
<1>3. field = LimitField(U8(q))
  BY <1>1 DEF LimitValue
<1>4. field \in Nat /\ field <= 127 /\ field <= q /\ (q < 128 => field = q)
  BY <1>3 DEF LimitField, U8
<1> QED
  BY <1>2, <1>4

-----------------------------------------------------------------------------
\* The registers hold what the settings, which a message may have replaced,
\* come to: the first after the first write, both after the second.
IInv ==
  /\ TypeOK
  /\ pc # "vref" => vref = VrefField(VRefCode(settings.vout_mv))
  /\ pc = "done" => iout_limit = LimitField(LimitValue(settings.iout_ma))

LEMMA Invariance == Spec => []IInv
<1>1. Init => IInv
  <2> SUFFICES ASSUME Init PROVE IInv
    OBVIOUS
  <2>1. PICK n \in 0 .. MaxSetting : settings = [vout_mv |-> n, iout_ma |-> n]
    BY DEF Init
  <2>2. QED
    BY <2>1 DEF Init, IInv, TypeOK
<1>2. IInv /\ [Next]_regulatorVars => IInv'
  <2> SUFFICES ASSUME IInv, [Next]_regulatorVars PROVE IInv'
    OBVIOUS
  <2>1. CASE WriteVref
    <3>1. settings.vout_mv \in Nat /\ settings.vout_mv <= 65535
      BY RegulatorAssumption DEF IInv, TypeOK
    <3>2. vref' \in Nat /\ vref' < 2048
      BY <2>1, <3>1, CodeOf, CodeWraps DEF WriteVref, VrefField
    <3>3. QED
      BY <2>1, <3>2 DEF WriteVref, IInv, TypeOK
  <2>2. CASE WriteLimit
    <3>1. settings.iout_ma \in Nat /\ settings.iout_ma <= 65535
      BY RegulatorAssumption DEF IInv, TypeOK
    <3>2. iout_limit' \in Nat /\ iout_limit' < 128
      BY <2>2, <3>1 DEF WriteLimit, LimitField, LimitValue, U8
    <3>3. QED
      BY <2>2, <3>2 DEF WriteLimit, IInv, TypeOK
  <2>3. CASE Message
    BY <2>3, RegulatorAssumption DEF Message, Integrate, IInv, TypeOK
  <2>4. CASE UNCHANGED regulatorVars
    BY <2>4 DEF regulatorVars, IInv, TypeOK
  <2>5. QED
    BY <2>1, <2>2, <2>3, <2>4 DEF Next
<1>3. QED
  BY <1>1, <1>2, PTL DEF Spec

\* Every reachable state is well typed: however a setting wraps on its way, no
\* register gets more than its field holds (tps55289/ll.rs:71-87).
THEOREM TypeCorrect == Spec => []TypeOK
<1>1. IInv => TypeOK
  BY DEF IInv
<1>2. QED
  BY <1>1, Invariance, PTL

\* For every u16 setting, by whatever messages it is reached: the reference is
\* never above the one asked for from 798 mV on, and close to it exactly from
\* there to 21312 mV (power_ext.rs:93, tps55289/mod.rs:45-54).
THEOREM VoltageIsHeld == Spec => []VoltageHeld
<1>1. IInv => VoltageHeld
  <2> SUFFICES ASSUME IInv, pc = "done" PROVE VoltageHeld
    BY DEF VoltageHeld
  <2>1. /\ settings.vout_mv \in Nat /\ settings.vout_mv <= 65535
        /\ vref = VrefField(VRefCode(settings.vout_mv))
    BY RegulatorAssumption DEF IInv, TypeOK
  <2>2. QED
    BY <2>1, ReferenceOf DEF VoltageHeld, Reference, Asked, Worth
<1>2. QED
  BY <1>1, Invariance, PTL

\* For every u16 setting, by whatever messages it is reached: the limit is
\* never above the one asked for, and within a step of it exactly below 3200 mA
\* (power_ext.rs:95-97).
THEOREM LimitIsHeld == Spec => []LimitHeld
<1>1. IInv => LimitHeld
  <2> SUFFICES ASSUME IInv, pc = "done" PROVE LimitHeld
    BY DEF LimitHeld
  <2>1. /\ settings.iout_ma \in Nat /\ settings.iout_ma <= 65535
        /\ iout_limit = LimitField(LimitValue(settings.iout_ma))
    BY RegulatorAssumption DEF IInv, TypeOK
  <2>2. QED
    BY <2>1, LimitOf DEF LimitHeld
<1>2. QED
  BY <1>1, Invariance, PTL
=============================================================================
