------------------------------ MODULE VtParser ------------------------------
(***************************************************************************)
(* vt/parse.go, vt/table.go and vt/dcs.go: the byte-at-a-time parser of    *)
(* the child's output, from bytes to control functions, control strings    *)
(* and characters.                                                         *)
(*                                                                         *)
(* Beside the parser runs a reader, which is not in the code: it splits    *)
(* the same bytes into sequences, keeps a sequence's text, and decides     *)
(* what it says only when it is complete, from a grammar.  The properties  *)
(* are that the parser does exactly what the reader says, whatever byte    *)
(* comes next.                                                             *)
(***************************************************************************)
EXTENDS Integers, Sequences, SequencesExt

CONSTANTS
  Repertoires,  \* sets of bytes: a child writes the bytes of one of them
  maxParams,    \* numeric values kept of one sequence (32 in the code)
  maxGroup,     \* values read of one group (8)
  maxIntermed,  \* intermediate bytes kept (2)
  maxString,    \* payload bytes kept of an OSC (4096) or a DCS (256)
  maxArg,       \* the largest value (65535)
  MaxText       \* bound: bytes of one control sequence

ASSUME ParserAssumption ==
  /\ \A bytes \in Repertoires : bytes \subseteq 0 .. 255
  /\ {maxParams, maxGroup, maxIntermed, maxString, maxArg, MaxText} \subseteq Nat \ {0}

VARIABLES
  p,       \* the parser
  reader,
  child    \* bound: the bytes it writes
vars == <<p, reader, child>>

CAN == 24
SUB == 26
ESC == 27
BEL == 7
ST  == 156
DEL == 127
Replacement == 65533       \* U+FFFD
C0 == 0 .. 31
C1 == 128 .. 159
Intermediates == 32 .. 47
Digits == 48 .. 57
Colon == 58
Semicolon == 59
Markers == 60 .. 63        \* < = > ?
ParamBytes == 48 .. 63
Finals == 64 .. 126
Continuation(b) == b \in 128 .. 191

-----------------------------------------------------------------------------
(* The transition table: <<action, next state>>.                           *)

Stay(st) == <<"none", st>>

Ground(b) == IF b \in C0 THEN <<"execute", "ground">> ELSE <<"print", "ground">>

Escape(b) ==
  CASE b \in C0                 -> <<"execute", "escape">>
    [] b \in Intermediates      -> <<"collect", "escapeInt">>
    [] b = 91                   -> Stay("csiEntry")
    [] b = 93                   -> Stay("osc")
    [] b = 80                   -> Stay("dcsEntry")
    [] b \in {88, 94, 95}       -> Stay("sos")
    [] b \in 48 .. 126 \ {80, 88, 91, 93, 94, 95} -> <<"escDispatch", "ground">>
    [] OTHER                    -> Stay("escape")
EscapeIntermediate(b) ==
  CASE b \in C0            -> <<"execute", "escapeInt">>
    [] b \in Intermediates -> <<"collect", "escapeInt">>
    [] b \in 48 .. 126     -> <<"escDispatch", "ground">>
    [] OTHER               -> Stay("escapeInt")

\* CsiEntry and CsiParam; DcsEntry and DcsParam.  A marker counts only in the
\* entry state.
Params(st, b, family) ==
  CASE b \in Intermediates            -> <<"collect", family.int>>
    [] b \in Digits \union {Semicolon} -> <<"param", family.param>>
    [] b = Colon                      -> <<"subparam", family.param>>
    [] b \in Markers /\ st = family.entry -> <<"marker", family.param>>
    [] b \in Markers /\ st # family.entry -> Stay(family.ignore)
    [] OTHER                          -> Stay(st)
CsiStates == [entry |-> "csiEntry", param |-> "csiParam", int |-> "csiInt", ignore |-> "csiIgnore"]
DcsStates == [entry |-> "dcsEntry", param |-> "dcsParam", int |-> "dcsInt", ignore |-> "dcsIgnore"]

CsiParams(st, b) ==
  CASE b \in C0     -> <<"execute", st>>
    [] b \in Finals -> <<"csiDispatch", "ground">>
    [] OTHER        -> Params(st, b, CsiStates)
CsiIntermediate(b) ==
  CASE b \in C0            -> <<"execute", "csiInt">>
    [] b \in Intermediates -> <<"collect", "csiInt">>
    [] b \in ParamBytes    -> Stay("csiIgnore")
    [] b \in Finals        -> <<"csiDispatch", "ground">>
    [] OTHER               -> Stay("csiInt")
CsiIgnore(b) ==
  CASE b \in C0     -> <<"execute", "csiIgnore">>
    [] b \in Finals -> Stay("ground")
    [] OTHER        -> Stay("csiIgnore")

DcsParams(st, b) == IF b \in Finals THEN Stay("dcsData") ELSE Params(st, b, DcsStates)
DcsIntermediate(b) ==
  CASE b \in Intermediates -> <<"collect", "dcsInt">>
    [] b \in ParamBytes    -> Stay("dcsIgnore")
    [] b \in Finals        -> Stay("dcsData")
    [] OTHER               -> Stay("dcsInt")
DcsPassthrough(b) == IF b = DEL THEN Stay("dcsData") ELSE <<"put", "dcsData">>
OscString(b) == IF b = BEL THEN Stay("ground") ELSE <<"oscPut", "osc">>

InState(st, b) ==
  CASE st = "ground"    -> Ground(b)
    [] st = "escape"    -> Escape(b)
    [] st = "escapeInt" -> EscapeIntermediate(b)
    [] st \in {"csiEntry", "csiParam"} -> CsiParams(st, b)
    [] st = "csiInt"    -> CsiIntermediate(b)
    [] st = "csiIgnore" -> CsiIgnore(b)
    [] st \in {"dcsEntry", "dcsParam"} -> DcsParams(st, b)
    [] st = "dcsInt"    -> DcsIntermediate(b)
    [] st = "dcsData"   -> DcsPassthrough(b)
    [] st = "osc"       -> OscString(b)
    [] OTHER            -> Stay(st)     \* dcsIgnore, sos

\* applyAnywhere: the 8-bit controls mean nothing in ground (the text is UTF-8)
\* and, but for ST, in a payload.
Strings == {"dcsData", "osc", "sos"}
Anywhere(b) ==
  CASE b = 144            -> Stay("dcsEntry")
    [] b = 155            -> Stay("csiEntry")
    [] b = 157            -> Stay("osc")
    [] b \in {152, 158, 159} -> Stay("sos")
    [] b = ST             -> Stay("ground")
    [] OTHER              -> <<"execute", "ground">>
stateTable(st, b) ==
  CASE b \in {CAN, SUB} -> <<"execute", "ground">>
    [] b = ESC          -> Stay("escape")
    [] b = ST /\ st \in Strings -> Stay("ground")
    [] b \in C1 /\ st \notin Strings \union {"ground"} -> Anywhere(b)
    [] OTHER            -> InState(st, b)

-----------------------------------------------------------------------------
(* Parameters: the values in one array (pParams up to numParams), and each *)
(* group's length at its first value's index in another, of which a new    *)
(* sequence resets only the first entry.                                   *)

parserClear(q) ==
  [q EXCEPT !.values = <<>>, !.groupLen[0] = 0, !.numGroups = 1, !.cur = 0,
            !.interms = <<>>, !.ignoring = FALSE, !.marker = 0]
groupStartIdx(q, g) ==
  LET start[i \in 0 .. g] == IF i = 0 THEN 0 ELSE start[i - 1] + q.groupLen[start[i - 1]]
  IN start[g]
\* The value goes to the array and lengthens the group being read.
storeParam(q) ==
  [q EXCEPT !.values = Append(@, q.cur), !.groupLen[groupStartIdx(q, q.numGroups - 1)] = @ + 1]
beginGroup(q) ==
  IF q.numGroups < maxParams /\ Len(q.values) < maxParams
  THEN [q EXCEPT !.groupLen[Len(q.values)] = 0, !.numGroups = @ + 1] ELSE q
pushParam(q, newGroup) ==
  LET stored == [storeParam(q) EXCEPT !.cur = 0]
  IN IF Len(q.values) >= maxParams THEN [q EXCEPT !.ignoring = TRUE]
     ELSE IF newGroup THEN beginGroup(stored) ELSE stored
Lesser(a, b) == IF a < b THEN a ELSE b
handleParam(q, b) ==
  CASE q.ignoring    -> q
    [] ~q.ignoring /\ b = Semicolon -> pushParam(q, TRUE)
    [] ~q.ignoring /\ b # Semicolon -> [q EXCEPT !.cur = Lesser(@ * 10 + (b - 48), maxArg)]
handleSubparam(q) == IF q.ignoring THEN q ELSE pushParam(q, FALSE)
\* (The mutant does not store a trailing empty value.)
MutFinalize(q) == IF q.ignoring \/ Len(q.values) >= maxParams \/ q.cur = 0 THEN q ELSE storeParam(q)
finalizeParams(q) == IF q.ignoring \/ Len(q.values) >= maxParams THEN q ELSE storeParam(q)
\* What the handlers read: the i-th group, cut at maxGroup values.
paramGroup(q, i) ==
  LET first == groupStartIdx(q, i)
      length == Lesser(Lesser(q.groupLen[first], maxGroup), maxParams - first)
  IN SubSeq(q.values, first + 1, first + length)
paramGroups(q) == [i \in 1 .. q.numGroups |-> paramGroup(q, i - 1)]

-----------------------------------------------------------------------------
(* The actions.  A parser and what it has done for the byte so far.        *)

Did(q, out) == [p |-> q, out |-> out]
Put(c) == <<"put", c>>

\* (The mutant checks the two-byte forms only.)
MutLeast(n) == 128
Least(n) == CASE n = 2 -> 128 [] n = 3 -> 2048 [] n = 4 -> 65536
decodeUTF8Bytes(bs) ==
  LET low(i) == bs[i] % 64
      r == CASE Len(bs) = 2 -> (bs[1] % 32) * 64 + low(2)
             [] Len(bs) = 3 -> (bs[1] % 16) * 4096 + low(2) * 64 + low(3)
             [] Len(bs) = 4 -> (bs[1] % 8) * 262144 + low(2) * 4096 + low(3) * 64 + low(4)
  IN IF r < Least(Len(bs)) \/ r > 1114111 \/ r \in 55296 .. 57343 \/ r = 65535
     THEN Replacement ELSE r
lengthOf(lead) ==
  CASE lead \in 192 .. 223 -> 2 [] lead \in 224 .. 239 -> 3 [] lead \in 240 .. 247 -> 4
handlePrint(q, b) ==
  CASE b < 128           -> Did(q, <<Put(b)>>)
    [] b \in 192 .. 247  -> Did([q EXCEPT !.utf8 = <<b>>], <<>>)
    [] OTHER             -> Did(q, <<Put(Replacement)>>)

\* dcs.go: which payloads are kept is decided at the final byte.
dcsHook(q, b) ==
  LET asked == IF b # 113 THEN <<>> ELSE q.interms
  IN CASE asked = <<36>> -> [q EXCEPT !.dcsFunc = "DECRQSS", !.dcsBuf = <<>>]
       [] asked = <<43>> -> [q EXCEPT !.dcsFunc = "XTGETTCAP", !.dcsBuf = <<>>]
       [] OTHER          -> [q EXCEPT !.dcsFunc = "ignored"]
Known == {"DECRQSS", "XTGETTCAP"}
dcsPut(q, b) ==
  IF q.dcsFunc \in Known /\ Len(q.dcsBuf) < maxString
  THEN [q EXCEPT !.dcsBuf = Append(@, b)] ELSE q
dcsUnhook(q) ==
  Did([q EXCEPT !.dcsFunc = "none"],
      IF q.dcsFunc \in Known THEN << <<"dcs", q.dcsFunc, q.dcsBuf>> >> ELSE <<>>)
dispatchOsc(q) ==
  Did([q EXCEPT !.oscBuf = <<>>], IF q.oscBuf = <<>> THEN <<>> ELSE << <<"osc", q.oscBuf>> >>)
dispatchCSI(q, b) ==
  Did(q, << <<"csi", q.marker, paramGroups(q), q.interms, b>> >>)

doAction(q, act, b) ==
  CASE act = "print"       -> handlePrint(q, b)
    [] act = "execute"     -> Did(q, << <<"control", b>> >>)
    [] act = "clear"       -> Did(parserClear(q), <<>>)
    [] act = "collect"     -> Did(IF Len(q.interms) < maxIntermed
                                  THEN [q EXCEPT !.interms = Append(@, b)] ELSE q, <<>>)
    [] act = "param"       -> Did(handleParam(q, b), <<>>)
    [] act = "subparam"    -> Did(handleSubparam(q), <<>>)
    [] act = "marker"      -> Did([q EXCEPT !.marker = b], <<>>)
    [] act = "escDispatch" -> Did(q, << <<"esc", q.interms, b>> >>)
    [] act = "csiDispatch" -> dispatchCSI(finalizeParams(q), b)
    [] act = "hook"        -> Did(dcsHook(finalizeParams(q), b), <<>>)
    [] act = "put"         -> Did(dcsPut(q, b), <<>>)
    [] act = "unhook"      -> dcsUnhook(q)
    [] act = "oscStart"    -> Did([q EXCEPT !.oscBuf = <<>>], <<>>)
    [] act = "oscPut"      -> Did(IF Len(q.oscBuf) < maxString
                                  THEN [q EXCEPT !.oscBuf = Append(@, b)] ELSE q, <<>>)
    [] act = "oscEnd"      -> dispatchOsc(q)
    [] act = "none"        -> Did(q, <<>>)
entryAction(st) ==
  CASE st \in {"escape", "csiEntry", "dcsEntry"} -> "clear"
    [] st = "osc"     -> "oscStart"
    [] st = "dcsData" -> "hook"
    [] OTHER          -> "none"
exitAction(st) == CASE st = "osc" -> "oscEnd" [] st = "dcsData" -> "unhook" [] OTHER -> "none"

Then(d, act, b) ==
  LET e == doAction(d.p, act, b) IN Did(e.p, d.out \o e.out)
\* CAN and SUB leave a state without its exit action.  (The mutant forgets it.)
MutOnExit(st, b) == exitAction(st)
OnExit(st, b)    == IF b \in {CAN, SUB} THEN "none" ELSE exitAction(st)
transit(d, b) ==
  LET st == d.p.st
      t == stateTable(st, b)
      moves == t[2] # st
      left == Then(d, IF moves THEN OnExit(st, b) ELSE "none", b)
      acted == Then(left, t[1], b)
  IN Then(Did([acted.p EXCEPT !.st = t[2]], acted.out),
          IF moves THEN entryAction(t[2]) ELSE "none", b)
feed(q, b) ==
  LET more == Append(q.utf8, b)
      whole == Len(more) = lengthOf(q.utf8[1])
  IN CASE q.utf8 = <<>> -> transit(Did(q, <<>>), b)
       [] q.utf8 # <<>> /\ Continuation(b) ->
            Did([q EXCEPT !.utf8 = IF whole THEN <<>> ELSE more],
                IF whole THEN <<Put(decodeUTF8Bytes(more))>> ELSE <<>>)
       [] q.utf8 # <<>> /\ ~Continuation(b) ->
            transit(Did([q EXCEPT !.utf8 = <<>>], <<Put(Replacement)>>), b)

-----------------------------------------------------------------------------
(* The reader.  It keeps only what it is in the middle of, and its text.   *)

In(mode, text) == [mode |-> mode, text |-> text]
Reads(r, out) == [reader |-> r, out |-> out]
Cut(text, n) == SubSeq(text, 1, Lesser(Len(text), n))

\* A control sequence is: a marker or none, parameters, intermediates, a final
\* byte.  With anything else in it the sequence says nothing.
Header(text) ==
  LET body == IF text # <<>> /\ text[1] \in Markers THEN Tail(text) ELSE text
      params == SelectSeq(body, LAMBDA b : b \in ParamBytes)
      ints == SelectSeq(body, LAMBDA b : b \in Intermediates)
  IN [ok |-> body = params \o ints /\ \A i \in 1 .. Len(params) : params[i] \notin Markers,
      marker |-> IF body = text THEN 0 ELSE text[1],
      params |-> params, ints |-> Cut(ints, maxIntermed)]

\* Between two separators, or the ends, is one value; nothing there reads as 0.
Separators(params) == {i \in 1 .. Len(params) : params[i] \in {Colon, Semicolon}}
Edges(params) == SetToSortSeq(Separators(params) \union {0, Len(params) + 1}, <)
ValueOf(digits) == FoldLeft(LAMBDA v, d : Lesser(v * 10 + (d - 48), maxArg), 0, digits)
\* The k-th value, and whether a semicolon (or the start) is before it.
Value(params, k) ==
  LET at == Edges(params)
  IN [v |-> ValueOf(SubSeq(params, at[k] + 1, at[k + 1] - 1)),
      first |-> IF k = 1 THEN TRUE ELSE params[at[k]] = Semicolon]
Values(params) ==
  [k \in 1 .. Lesser(Len(Edges(params)) - 1, maxParams) |-> Value(params, k)]
Groups(params) ==
  FoldLeft(LAMBDA gs, v : IF v.first THEN Append(gs, <<v.v>>)
                          ELSE [gs EXCEPT ![Len(gs)] = IF Len(@) < maxGroup
                                                       THEN Append(@, v.v) ELSE @],
           <<>>, Values(params))

\* The scalar value of well-formed UTF-8 (Unicode, table 3-7), less U+FFFF.
SecondBytes(lead) ==
  CASE lead = 224 -> 160 .. 191 [] lead = 237 -> 128 .. 159
    [] lead = 240 -> 144 .. 191 [] lead = 244 -> 128 .. 143 [] OTHER -> 128 .. 191
WellFormed(bs) ==
  bs[1] \in 194 .. 244 /\ bs[2] \in SecondBytes(bs[1]) /\ bs # <<239, 191, 191>>
Scalar(bs) ==
  LET bits == FoldLeft(LAMBDA r, b : r * 64 + (b - 128), 0, Tail(bs))
      lead == bs[1] - (CASE Len(bs) = 2 -> 192 [] Len(bs) = 3 -> 224 [] Len(bs) = 4 -> 240)
  IN lead * (64 ^ (Len(bs) - 1)) + bits

Text(text) == In("text", text)
\* An 8-bit control where it counts: a new sequence, or the end of this one.
Eighth(b) ==
  LET to == CASE b = 144 -> "dcs" [] b = 155 -> "csi" [] b = 157 -> "osc"
              [] b \in {152, 158, 159} -> "sos" [] OTHER -> "text"
  IN Reads(In(to, <<>>), IF to = "text" /\ b # ST THEN << <<"control", b>> >> ELSE <<>>)
Introduces == [b \in {91, 93, 80, 88, 94, 95} |->
  CASE b = 91 -> "csi" [] b = 93 -> "osc" [] b = 80 -> "dcs" [] OTHER -> "sos"]

ReadText(r, b) ==
  CASE r.text # <<>> /\ Continuation(b) ->
         LET bs == Append(r.text, b) IN
         IF Len(bs) < lengthOf(bs[1]) THEN Reads(Text(bs), <<>>)
         ELSE Reads(Text(<<>>), <<Put(IF WellFormed(bs) THEN Scalar(bs) ELSE Replacement)>>)
    [] r.text = <<>> \/ ~Continuation(b) ->
         LET cut == IF r.text = <<>> THEN <<>> ELSE <<Put(Replacement)>> IN
         CASE b = ESC          -> Reads(In("esc", <<>>), cut)
           [] b \in C0 \ {ESC} -> Reads(Text(<<>>), cut \o << <<"control", b>> >>)
           [] b \in 32 .. 127  -> Reads(Text(<<>>), cut \o <<Put(b)>>)
           [] b \in 192 .. 247 -> Reads(Text(<<b>>), cut)
           [] OTHER            -> Reads(Text(<<>>), cut \o <<Put(Replacement)>>)

ReadEsc(r, b) ==
  CASE b \in Intermediates -> Reads(In("esc", Append(r.text, b)), <<>>)
    [] b \in 48 .. 126 -> IF r.text = <<>> /\ b \in DOMAIN Introduces
                          THEN Reads(In(Introduces[b], <<>>), <<>>)
                          ELSE Reads(Text(<<>>), << <<"esc", Cut(r.text, maxIntermed), b>> >>)
    [] OTHER -> Reads(r, <<>>)
ReadCsi(r, b) ==
  LET h == Header(r.text)
  IN CASE b \in 32 .. 63 -> Reads(In("csi", Append(r.text, b)), <<>>)
       [] b \in Finals   -> Reads(Text(<<>>), IF ~h.ok THEN <<>>
            ELSE << <<"csi", h.marker, Groups(h.params), h.ints, b>> >>)
       [] OTHER          -> Reads(r, <<>>)
ReadDcs(r, b) ==
  LET h == Header(r.text)
  IN CASE b \in 32 .. 63 -> Reads(In("dcs", Append(r.text, b)), <<>>)
       [] b \in Finals -> Reads(IF ~h.ok THEN In("skip", <<>>)
            ELSE In(CASE h.ints = <<36>> /\ b = 113 -> "DECRQSS"
                      [] h.ints = <<43>> /\ b = 113 -> "XTGETTCAP"
                      [] OTHER -> "unknown", <<>>), <<>>)
       [] OTHER -> Reads(r, <<>>)
ReadPayload(r, b) ==
  LET keeps == r.mode \in {"osc"} \union Known
      kept == IF keeps THEN Cut(r.text, maxString) ELSE <<>>
      ended == CASE r.mode = "osc" /\ kept # <<>> -> << <<"osc", kept>> >>
                 [] r.mode \in Known -> << <<"dcs", r.mode, kept>> >>
                 [] OTHER -> <<>>
  IN CASE b = ESC -> Reads(In("esc", <<>>), ended)
       [] b = ST \/ (r.mode = "osc" /\ b = BEL) -> Reads(Text(<<>>), ended)
       [] b = DEL /\ r.mode # "osc" -> Reads(r, <<>>)
       [] OTHER -> Reads(In(r.mode, IF keeps THEN Cut(Append(r.text, b), maxString) ELSE <<>>), <<>>)

Payloads == {"osc", "sos", "unknown"} \union Known
Read(r, b) ==
  CASE r.mode = "text" -> ReadText(r, b)
    [] r.mode # "text" /\ b \in {CAN, SUB} -> Reads(Text(<<>>), << <<"control", b>> >>)
    [] r.mode \in Payloads /\ b \notin {CAN, SUB} -> ReadPayload(r, b)
    [] r.mode \notin Payloads \union {"text"} /\ b \notin {CAN, SUB} ->
         CASE b = ESC -> Reads(In("esc", <<>>), <<>>)
           [] b \in C1 -> Eighth(b)
           [] b \in C0 \ {ESC} ->
                Reads(r, IF r.mode \in {"esc", "csi"} THEN << <<"control", b>> >> ELSE <<>>)
           [] b \notin C0 \union C1 ->
                CASE r.mode = "esc" -> ReadEsc(r, b)
                  [] r.mode = "csi" -> ReadCsi(r, b)
                  [] r.mode = "dcs" -> ReadDcs(r, b)
                  [] r.mode = "skip" -> Reads(r, <<>>)

-----------------------------------------------------------------------------
Init ==
  /\ child \in Repertoires
  /\ p = [st |-> "ground", interms |-> <<>>, marker |-> 0, values |-> <<>>,
          groupLen |-> [i \in 0 .. maxParams - 1 |-> 0], numGroups |-> 0, cur |-> 0,
          ignoring |-> FALSE, oscBuf |-> <<>>, dcsBuf |-> <<>>, dcsFunc |-> "none",
          utf8 |-> <<>>]
  /\ reader = Text(<<>>)
Feed(b) ==
  /\ p' = feed(p, b).p
  /\ reader' = Read(reader, b).reader
  /\ Len(reader'.text) <= MaxText
  /\ UNCHANGED child
Next == \E b \in child : Feed(b)
Spec == Init /\ [][Next]_vars

Said(out, kinds) == SelectSeq(out, LAMBDA o : o[1] \in kinds)
Agree(kinds) ==
  \A b \in child : Said(feed(p, b).out, kinds) = Said(Read(reader, b).out, kinds)

\* Whatever byte comes next, the control characters, escape sequences and control
\* sequences it makes the parser execute are those of the grammar, with the values
\* the sequence's own text gives: nothing of an earlier, cancelled, malformed or
\* overlong sequence is left in them.
ControlsAsWritten == Agree({"control", "esc", "csi"})

\* A control string is acted on when it ends and at no other byte, once, with the
\* payload the child wrote, cut at the limit; a cancelled one is not acted on, and
\* nothing of it shows in a later one.
StringsAsWritten == Agree({"osc", "dcs"})

\* The characters put on the screen are those of the UTF-8 text outside control
\* sequences: every ill-formed part is one replacement character, and no byte of a
\* sequence shows as text nor any text byte is lost in one.
TextAsWritten == Agree({"put"})
=============================================================================
