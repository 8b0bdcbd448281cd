----------------------------- MODULE TimeUnits -----------------------------
(***************************************************************************)
(* Times (conf.h:25-39, chvt.h:58-59).  systime_t counts the ticks of the  *)
(* kernel and wraps at Modulus; d7_ti counts the ticks of the protocol,    *)
(* 1000 for every 977 of the kernel, and wraps at TiModulus.               *)
(***************************************************************************)
EXTENDS Integers

CONSTANTS
    Modulus,    \* of systime_t
    TiModulus   \* of d7_ti

ASSUME TimeAssumption == Modulus \in Nat \ {0} /\ TiModulus \in Nat \ {0}

\* d7_ti_to_systime and systime_to_d7_ti
Systime(ti) == (ti * 977) \div 1000
Ti(milli) == (((milli * 1000) % Modulus) \div 977) % TiModulus

\* MS2ST
Ticks(ms) == (((((ms - 1) % Modulus) * 1000) % Modulus) \div 1000) + 1

=============================================================================
