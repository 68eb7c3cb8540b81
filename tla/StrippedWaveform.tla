--------------------------- MODULE StrippedWaveform ---------------------------
(***************************************************************************)
(* The trace of Waveform as a VCD file, and what strip.py makes of it before *)
(* it is stored or analysed.                                                *)
(***************************************************************************)
EXTENDS Waveform, VcdStrip

CONSTANTS
  Header,   (* the lines of the header                                      *)
  IdOf,     (* the id of each signal in the header                          *)
  Interface (* the paths of the interface's signals                         *)

(* The clock has an id of its own.                                           *)
ClockId == "clk"

(* A line ends the header, and the declarations with it.                     *)
HeaderEnds(file, end) ==
  /\ end \in DOMAIN file /\ file[end].kind = "enddefinitions"
  /\ \A k \in 1 .. end - 1 :
       /\ file[k].kind \notin {"enddefinitions", "time", "value"}
       /\ file[k].kind = "timescale" => file[k + 1].kind = "text"
  /\ \A k \in DOMAIN file : end < k => file[k].kind # "var"

(* Each signal has an id, and the interface names it.                        *)
ASSUME HeaderAssumption ==
  /\ Header \in Seq(Range(Header))
  /\ \E end \in DOMAIN Header : HeaderEnds(Header, end)
  /\ \A k \in DOMAIN Header : Header[k].kind \notin {"time", "value"}
  /\ \A s, u \in Signal : IdOf[s] # ClockId /\ (IdOf[s] = IdOf[u] => s = u)
  /\ \A s \in Signal : \E x \in Variables(Header) : x[1] \in Interface /\ x[2] = IdOf[s]

(* The signals that change in cycle k of a run; k is 0 before the first edge. *)
TimeOf(k) == IF k = 0 THEN 0 ELSE EdgeTime(k)

ChangesAt(run, k) ==
  LET changed == SetToSeq({s \in Signal :
                   \E n \in DOMAIN changes[run][s] : changes[run][s][n].t = TimeOf(k)})
  IN  [n \in DOMAIN changed |->
        Change(IdOf[changed[n]], cycles[run][k + 1][changed[n]])]

VcdFile(run) ==
  LET file[n \in 0 .. Edges(run) + 1] ==
        IF n = 0 THEN Header
        ELSE file[n - 1] \o <<Time(TimeOf(n - 1)), Change(ClockId, 1)>> \o ChangesAt(run, n - 1)
  IN  file[Edges(run) + 1]

(* A stripped file declares the signals of the interface, those under a      *)
(* second name for the same id included, under the paths they had, and no    *)
(* others; and they change at the times they changed at.  A file holds one   *)
(* run: looking at it while the other has not begun is enough.               *)
StripKeepsSignals ==
  \A run \in Run : (\A other \in Run \ {run} : Edges(other) = 0) =>
    LET file == VcdFile(run)
        stripped == strip_vcd(file, Interface)
    IN  /\ Variables(stripped) = {x \in Variables(file) : x[1] \in Interface}
        /\ \A x \in Variables(stripped) :
             ChangesOf(stripped, x[2]) = ChangesOf(file, x[2])
        /\ \A s \in Signal : ChangesOf(stripped, IdOf[s]) = changes[run][s]
=============================================================================
