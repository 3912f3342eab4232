------------------------------ MODULE Regulator ------------------------------
(***************************************************************************)
(* What PowerExt::persist and drivers/tps55289 make of a setting, with the *)
(* widths of the code: u16 settings, u32 nanovolts, a VREF field of 11     *)
(* bits and a limit of 7.                                                  *)
(* Settings are swept over all of u16, and messages replace parts of them. *)
(* Voltages of the reference are in units of 4 nV in VRefCode, which keeps *)
(* 2^32 nV within TLC's integers, and of 100 nV elsewhere.                 *)
(***************************************************************************)
EXTENDS Integers

CONSTANTS
  MaxSetting,  \* the sweep's end: 2^16 - 1 is the end of u16
  Edges        \* settings that messages switch between

ASSUME RegulatorAssumption ==
  /\ MaxSetting \in Nat /\ MaxSetting <= 65535
  /\ Edges \subseteq 0 .. MaxSetting

VARIABLES
  settings,    \* Settings::vout_mv and iout_ma
  pc,          \* persist: the register it writes next, or "done"
  vref,        \* field of register VREF
  iout_limit   \* field setting of register IOUT_LIMIT

regulatorVars == <<settings, pc, vref, iout_limit>>

U8(n) == n % 256
U16(n) == n % 65536

Init ==
  /\ \E n \in 0 .. MaxSetting : settings = [vout_mv |-> n, iout_ma |-> n]
  /\ pc = "vref"
  /\ vref = 0 /\ iout_limit = 0

-----------------------------------------------------------------------------
\* IntFB::Ratio0_0564: the reference for an output, in whole millivolts.
Multiply(x) == (x * 564) \div 10000

\* Slip: the offset is forgotten.
VRefCodeNoOffset(vout) == U16((Multiply(vout) * 250000) \div 141125)

\* VRef::from_feedback and from_nanovolts; 45_000_000 nV is the offset and
\* 564_500 nV the step.  The subtraction wraps in a release build, at 2^32 nV.
VRefCode(vout) ==
  U16(((Multiply(vout) * 250000 - 11250000) % 1073741824) \div 141125)

\* Slip: the sense resistor is 10 milliohm.
LimitValueTwice(iout) == U8((iout * 20) \div 250)

\* The limit of persist: 20 milliohm, half a millivolt per step.
LimitValue(iout) == U8((iout * 20) \div 500)

\* A field holds the low bits of what is written to it: 11 and 7.
VrefField(n) == n % 2048
LimitField(n) == n % 128

WriteVref ==
  /\ pc = "vref"
  /\ vref' = VrefField(VRefCode(settings.vout_mv))
  /\ pc' = "limit"
  /\ UNCHANGED <<settings, iout_limit>>

WriteLimit ==
  /\ pc = "limit"
  /\ iout_limit' = LimitField(LimitValue(settings.iout_ma))
  /\ pc' = "done"
  /\ UNCHANGED <<settings, vref>>

\* Settings::integrate: the fields of a message that are there.
Integrate(s, fields, n) ==
  [f \in DOMAIN s |-> IF f \in fields THEN n ELSE s[f]]

\* A message with other settings, which config_task persists.
Message ==
  /\ pc = "done"
  /\ settings.vout_mv \in Edges /\ settings.iout_ma \in Edges
  /\ \E fields \in SUBSET {"vout_mv", "iout_ma"}, n \in Edges :
       settings' = Integrate(settings, fields, n)
  /\ settings' # settings
  /\ pc' = "vref"
  /\ UNCHANGED <<vref, iout_limit>>

Next == WriteVref \/ WriteLimit \/ Message

Spec == Init /\ [][Next]_regulatorVars

-----------------------------------------------------------------------------
\* VRef::into_nanovolts, and the reference a setting asks for, in 100 nV.
Reference == 450000 + 5645 * vref
Asked == 564 * settings.vout_mv

TypeOK ==
  /\ settings \in [{"vout_mv", "iout_ma"} -> 0 .. MaxSetting]
  /\ pc \in {"vref", "limit", "done"}
  /\ vref \in Nat /\ vref < 2048
  /\ iout_limit \in Nat /\ iout_limit < 128

\* The converter is never set above the voltage asked for, and less than a
\* millivolt of reference and a step below it, exactly for the voltages it can
\* make: 798 mV to 21312 mV.  Below them the subtraction wraps and the output
\* would be too high, beyond them the field wraps and it is too low
\* (power_ext.rs:93, tps55289/mod.rs:45-54).
VoltageHeld ==
  pc = "done" =>
    /\ settings.vout_mv >= 798 => Reference <= Asked
    /\ (Reference <= Asked /\ Asked - Reference < 10000 + 5645)
         <=> 798 <= settings.vout_mv /\ settings.vout_mv <= 21312

\* The limit is never above the current asked for, and within a step of 25 mA
\* of it exactly below 3200 mA, from where it wraps (power_ext.rs:95-97).
LimitHeld ==
  pc = "done" =>
    /\ 25 * iout_limit <= settings.iout_ma
    /\ settings.iout_ma - 25 * iout_limit < 25 <=> settings.iout_ma < 3200
=============================================================================
