----------------------------- MODULE MC_Waveform -----------------------------
(* Two values: equal and different retirements, with and without idle cycles *)
(* between them, in runs of up to three cycles.  The header has variables    *)
(* before, in and behind an inner scope, equal names in different scopes,    *)
(* and a second name for an id; the interface has a signal that is not in    *)
(* the file.                                                                 *)
EXTENDS StrippedWaveform

MCValue == {0, 1}

MCIdOf == (active :> "a" @@ pc :> "p")

MCHeader ==
  <<Line("text"), Line("timescale"), Line("text"), Scope("TOP"), Var("clk", ClockId),
    Scope("core"), Var(active, "a"), Var("clk", ClockId), Var(pc, "p"), Upscope,
    Scope("cache"), Var(pc, ClockId), Upscope,
    Var("alias", "p"), Upscope, Line("enddefinitions"), Line("text")>>

MCInterface ==
  {<<"TOP", "core", active>>, <<"TOP", "core", pc>>, <<"TOP", "alias">>,
   <<"TOP", "core", "absent">>}
=============================================================================
