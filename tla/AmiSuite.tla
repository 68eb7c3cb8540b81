------------------------------ MODULE AmiSuite ------------------------------
(***************************************************************************)
(* The programs of benchmarks/ami-suite, one of which runs: its driver      *)
(* calls the routine under test.  The routines without a state of their own *)
(* are called once, the keypad and kruskal go on.                           *)
(***************************************************************************)
EXTENDS Kruskal, Keypad

CONSTANTS
  Argument,   (* arguments of the comparing routines                        *)
  Factor,     (* arguments of mulmod16                                      *)
  Exponent,   (* exponents of modexp2                                       *)
  Password,   (* passwords, all of one length                               *)
  Portfolio,  (* ids and quantities of one length, for share_value          *)
  Register    (* what a caller may have left in t3                          *)

ASSUME SuiteAssumption ==
  /\ Argument \cup Factor \cup Exponent \subseteq Word /\ Register \subseteq Word
  /\ Password \subseteq Seq(Word) /\ \A p, q \in Password : Len(p) = Len(q)
  /\ \A p \in Portfolio :
       p.ids \in Seq(Word) /\ p.qty \in Seq(Word) /\ Len(p.ids) = Len(p.qty)

VARIABLES
  program,   (* the one that runs                                           *)
  returned   (* routine, arguments and result of its call                   *)

suiteVars == <<program, returned, keypadVars, kruskalVars>>

NotCalled == [routine |-> "none", args |-> <<>>, result |-> 0]

SuiteInit ==
  /\ program \in {"routine", "keypad", "kruskal"}
  /\ returned = NotCalled
  /\ KeypadZero
  /\ KruskalInit
  /\ program # "kruskal" => edges = CHOOSE some \in EdgeLists : TRUE

Returns(name, args, value) ==
  /\ program = "routine" /\ returned = NotCalled
  /\ returned' = [routine |-> name, args |-> args, result |-> value]
  /\ UNCHANGED <<program, keypadVars, kruskalVars>>

CallComparing ==
  \E a, b \in Argument :
    \/ Returns("diamond", <<a, b>>, diamond(a, b))
    \/ Returns("fork", <<a, b>>, fork(a, b))
    \/ Returns("triangle", <<a, b>>, triangle(a, b))
    \/ Returns("ifthenloop", <<a, b>>, ifthenloop(a, b))
    \/ Returns("call", <<a, b>>, call(a, b))

CallSwitch == \E a \in Word : Returns("switch_case", <<a>>, switch_case(a))

CallUnlock ==
  \E password, data \in Password :
    Returns("BSL430_unlock_BSL", <<password, data>>, BSL430_unlock_BSL(password, data))

CallShares ==
  \E p \in Portfolio, t3 \in Register :
    Returns("share_value", <<p>>, share_value(p.ids, p.qty, t3))

CallMulmod == \E a, b \in Factor : Returns("mulmod16", <<a, b>>, mulmod16(a, b))

CallModexp ==
  \E y \in 0 .. Lower - 1, k \in Exponent : Returns("modexp2", <<y, k>>, modexp2(y, k))

RunKeypad ==
  /\ program = "keypad"
  /\ KeypadNext
  /\ UNCHANGED <<program, returned, kruskalVars>>

RunKruskal ==
  /\ program = "kruskal"
  /\ KruskalNext
  /\ UNCHANGED <<program, returned, keypadVars>>

SuiteNext ==
  \/ CallComparing \/ CallSwitch \/ CallUnlock \/ CallShares
  \/ CallMulmod \/ CallModexp
  \/ RunKeypad \/ RunKruskal

SuiteSpec == SuiteInit /\ [][SuiteNext]_suiteVars

-----------------------------------------------------------------------------
arg == returned.args

Is(name) == returned.routine = name

SpecialShares(p) ==
  LET special[n \in 0 .. Len(p.ids)] ==
        IF n = 0 THEN 0 ELSE special[n - 1] + (IF p.ids[n] = 42 THEN p.qty[n] ELSE 0)
  IN  special[Len(p.ids)]

(* The masked routines return what the branches named in their comments      *)
(* would, whatever is in the registers.                                      *)
BranchesAgree ==
  /\ Is("diamond") =>
       LET x == CASE arg[1] > arg[2] -> 7 [] arg[1] < arg[2] -> 3 [] OTHER -> 0
       IN  returned.result = IF arg[2] = 10 THEN 4 * x ELSE x
  /\ Is("fork") => returned.result = IF arg[1] < arg[2] THEN Signed(arg[1] + 2) ELSE 3
  /\ Is("triangle") => returned.result = IF arg[1] < arg[2] THEN 7 ELSE 3
  /\ Is("ifthenloop") => returned.result = IF arg[2] < arg[1] THEN 0 ELSE 3
  /\ Is("switch_case") => returned.result = arg[1]
  /\ Is("BSL430_unlock_BSL") => (returned.result = 0 <=> arg[1] = arg[2])
  /\ Is("share_value") => returned.result = Signed(7 * SpecialShares(arg[1]))

ModularProduct(a, b) ==
  LET Element(x) == IF x % Lower = 0 THEN Lower ELSE x % Lower
      zeros == a % Lower = 0 /\ b % Lower = 0
  IN  IF zeros THEN 0 ELSE ((Element(a) * Element(b)) % (Lower + 1)) % Lower

ModularPower(y, k) ==
  LET power[n \in 0 .. k] == IF n = 0 THEN 1 ELSE (power[n - 1] * y) % 7
  IN  IF k < 0 THEN 1 ELSE power[k]

(* mulmod16 multiplies modulo 2^16 + 1, where 0 stands for 2^16, except that *)
(* the product of two zeros is 0 and not 1: the second masked case is taken  *)
(* after the first, where the branches would have taken one of them.         *)
(* modexp2 is y^k modulo 7 for a y whose square fits in a word; all 32       *)
(* passes are made, those behind the last bit of k too.  A negative k gives  *)
(* 1: no bit of it is ever tested equal to one.                              *)
ArithmeticIsModular ==
  /\ Is("mulmod16") => returned.result = ModularProduct(arg[1], arg[2])
  /\ Is("modexp2") => returned.result = ModularPower(arg[1], arg[2])
=============================================================================
