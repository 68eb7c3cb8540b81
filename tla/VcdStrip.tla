------------------------------ MODULE VcdStrip ------------------------------
(***************************************************************************)
(* strip.py: copies of a VCD file what the signals of an interface need.  A *)
(* line is a record with its kind; a file is a header up to the line that   *)
(* ends the definitions, then times and value changes.  The regular         *)
(* expressions that tell the kinds apart are left out.                      *)
(***************************************************************************)
EXTENDS Integers, Sequences, SequencesExt

Scope(name) == [kind |-> "scope", name |-> name]

Upscope == [kind |-> "upscope"]

Var(name, id) == [kind |-> "var", name |-> name, id |-> id]

(* timescale: with the value on the next line; text: anything else           *)
Line(kind) == [kind |-> kind]

Time(t) == [kind |-> "time", t |-> t]

Change(id, v) == [kind |-> "value", id |-> id, v |-> v]

(* "for line in file", with what the loop carries from line to line.         *)
ForLines(Body(_, _), start, lines) ==
  LET after[n \in 0 .. Len(lines)] ==
        IF n = 0 THEN start ELSE Body(after[n - 1], lines[n])
  IN  after[Len(lines)]

-----------------------------------------------------------------------------
(* h is what strip.py carries: the lines written so far, and whether the     *)
(* loop of set_ids still runs.  A scope is named by its path.                *)
NothingRead ==
  [of |-> <<>>, scopes |-> <<>>, ids |-> {}, timescale_on_next |-> FALSE, in_header |-> TRUE]

Write(h, line) == [h EXCEPT !.of = Append(@, line)]

StaysInside(scopes) == scopes

Outside(scopes) == IF scopes = <<>> THEN <<>> ELSE Front(scopes)

KeywordLine(h, line) ==
  IF line.kind = "timescale_inline" \/ h.timescale_on_next
  THEN [Write(h, line) EXCEPT !.timescale_on_next = FALSE]
  ELSE IF line.kind = "timescale"
  THEN [Write(h, line) EXCEPT !.timescale_on_next = TRUE]
  ELSE IF line.kind = "enddefinitions" THEN [Write(h, line) EXCEPT !.in_header = FALSE]
  ELSE h

set_ids(signals, h, line) ==
  CASE line.kind = "var" /\ Append(h.scopes, line.name) \in signals ->
         [Write(h, line) EXCEPT !.ids = @ \cup {line.id}]
    [] line.kind = "var" /\ Append(h.scopes, line.name) \notin signals -> h
    [] line.kind = "scope" ->
         [Write(h, line) EXCEPT !.scopes = Append(@, line.name)]
    [] line.kind = "upscope" -> [Write(h, line) EXCEPT !.scopes = Outside(@)]
    [] OTHER -> KeywordLine(h, line)

(* The line is kept if it is a time or a change of one of ids.               *)
load_values(h, line) ==
  IF line.kind = "time" \/ (line.kind = "value" /\ line.id \in h.ids)
  THEN Write(h, line) ELSE h

StripLine(signals, h, line) ==
  IF h.in_header THEN set_ids(signals, h, line) ELSE load_values(h, line)

strip_vcd(file, signals) ==
  ForLines(LAMBDA h, line : StripLine(signals, h, line), NothingRead, file).of

-----------------------------------------------------------------------------
(* How a VCD file is read (the library vcdvcd): the path of each variable,   *)
(* and the values of its id with the time line before them.                  *)
Declare(r, line) ==
  CASE line.kind = "scope" -> [r EXCEPT !.path = Append(@, line.name)]
    [] line.kind = "upscope" -> [r EXCEPT !.path = Front(@)]
    [] line.kind = "var" ->
         [r EXCEPT !.vars = @ \cup {<<Append(r.path, line.name), line.id>>}]
    [] OTHER -> r

Variables(file) == ForLines(Declare, [path |-> <<>>, vars |-> {}], file).vars

ReadValue(id, r, line) ==
  CASE line.kind = "time" -> [r EXCEPT !.t = line.t]
    [] line.kind = "value" /\ line.id = id ->
         [r EXCEPT !.seq = Append(@, [t |-> r.t, v |-> line.v])]
    [] OTHER -> r

ChangesOf(file, id) ==
  ForLines(LAMBDA r, line : ReadValue(id, r, line), [t |-> 0, seq |-> <<>>], file).seq
=============================================================================
