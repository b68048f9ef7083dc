------------------------------- MODULE Texts -------------------------------
(***************************************************************************)
(* The pure functions that make the names, labels and records: command.rs, *)
(* label.rs, lock.rs and osc.rs.  A text is a sequence of symbols; a symbol *)
(* is a character, a number or a word, whatever is never cut in two here.  *)
(* A command line is a sequence of words, with the spaces between them     *)
(* gone.                                                                   *)
(***************************************************************************)
EXTENDS Integers, Sequences, SequencesExt

CONSTANTS
    LongNames,  \* program names of more than 32 bytes
    OddNames    \* program names with a byte outside [A-Za-z0-9_.+-]

-----------------------------------------------------------------------------
(* Characters.  A symbol that is not listed is one byte.                   *)
Utf8 == [bell |-> <<7>>, acute |-> <<195, 169>>, ellipsis |-> <<226, 128, 166>>,
         padlock |-> <<240, 159, 148, 146>>]
Bytes(c) == IF c \in DOMAIN Utf8 THEN Utf8[c] ELSE <<120>>
Control == {"bell"}
BytesOf(text) == FlattenSeq([i \in DOMAIN text |-> Bytes(text[i])])

(* command.rs.  A word is [text, assign, abs, base]: whether it has a `=`, *)
(* whether it begins with `/`, and its last component.                     *)
FALLBACK == "shell"
WRAPPERS == {"command", "builtin", "exec", "env", "nohup"}

NamesNoProgram(word) ==
    \/ word.assign /\ ~word.abs
    \/ word.base = ""
    \/ word.base \in WRAPPERS

AgentName(line) ==
    LET i == SelectInSeq(line, LAMBDA word : ~NamesNoProgram(word))
    IN  IF i = 0 THEN FALLBACK ELSE line[i].base

Truncate(s, max) ==
    CASE Len(s) <= max -> s
      [] Len(s) > max /\ max = 0 -> <<>>
      [] OTHER -> SubSeq(s, 1, max - 1) \o <<"ellipsis">>

(* The words with one space between them.                                  *)
Joined(line) ==
    FlattenSeq([i \in DOMAIN line |->
                  IF i = 1 THEN line[i].text ELSE <<" ">> \o line[i].text])

DisplayName(line, max) ==
    IF line = <<>> THEN <<FALLBACK>> ELSE Truncate(Joined(line), max)
-----------------------------------------------------------------------------
(* label.rs.                                                               *)
DIGITS == <<"0", "1", "2", "3", "4", "5", "6", "7", "8", "9">>
Digit(d) == DIGITS[d + 1]
Decimal(n) ==
    LET digits[k \in 0..n] ==
            IF k < 10 THEN <<Digit(k)>> ELSE Append(digits[k \div 10], Digit(k % 10))
    IN  digits[n]
TwoDigits(n) == IF n < 10 THEN <<Digit(0), Digit(n)>> ELSE Decimal(n)

FormatElapsedMinutes(ms) ==
    LET secs == ms \div 1000
    IN  IF secs < 60 THEN Append(Decimal(secs), "s")
        ELSE Append(Append(Decimal(secs \div 60), "m") \o TwoDigits(secs % 60), "s")
FormatElapsed(ms) ==
    LET secs == ms \div 1000
    IN  CASE secs < 60 -> Append(Decimal(secs), "s")
          [] secs >= 60 /\ secs < 3600 ->
                Append(Append(Decimal(secs \div 60), "m") \o TwoDigits(secs % 60), "s")
          [] OTHER ->
                Append(Append(Decimal(secs \div 3600), "h")
                         \o TwoDigits((secs % 3600) \div 60), "m")

NoCode == 99999     \* no exit code could be read
SIGNALS ==
    [sig \in {1, 2, 3, 6, 9, 13, 15} |->
        CASE sig = 1 -> "SIGHUP"    [] sig = 2 -> "SIGINT"    [] sig = 3 -> "SIGQUIT"
          [] sig = 6 -> "SIGABRT"   [] sig = 9 -> "SIGKILL"   [] sig = 13 -> "SIGPIPE"
          [] sig = 15 -> "SIGTERM"]

Classify(code) ==
    CASE code = NoCode -> [kind |-> "unknown", value |-> <<>>]
      [] code = 0 -> [kind |-> "success", value |-> <<>>]
      [] code > 128 /\ code < 192 /\ code - 128 \in DOMAIN SIGNALS ->
            [kind |-> "signal", value |-> <<SIGNALS[code - 128]>>]
      [] OTHER -> [kind |-> "failure", value |-> Decimal(code)]

RenderInTurn(template, vars) ==
    LET Replace(text, key) == ReplaceFirstSubSeq(vars[key], <<"{", key, "}">>, text)
    IN  FoldLeft(Replace, template, <<"cmd">> \o SetToSeq(DOMAIN vars \ {"cmd"}))

(* `{key}` is replaced by its value, which is not looked at again; a key   *)
(* that is not known and a brace that is not closed stay as they are.      *)
Render(template, vars) ==
    LET n == Len(template)
        Close(i) == SelectInSeq(SubSeq(template, i + 1, n), LAMBDA c : c = "}")
        Value(key) == IF Len(key) = 1 /\ key[1] \in DOMAIN vars THEN vars[key[1]]
                      ELSE <<"{">> \o key \o <<"}">>
        rest[i \in 1..(n + 1)] ==
            CASE i > n -> <<>>
              [] i <= n /\ template[i] # "{" -> <<template[i]>> \o rest[i + 1]
              [] i <= n /\ template[i] = "{" /\ Close(i) = 0 -> SubSeq(template, i, n)
              [] OTHER -> Value(SubSeq(template, i + 1, i + Close(i) - 1))
                            \o rest[i + Close(i) + 1]
    IN  rest[1]
-----------------------------------------------------------------------------
(* lock.rs.  An empty prefix is the off switch.                            *)
IsKeylock(agent) == agent = "keylock"
Decorate(text, prefix) == prefix \o text
-----------------------------------------------------------------------------
(* osc.rs.                                                                 *)
FALLBACK_APP == "shell"
MAX_TITLE_BYTES == 192
MAX_MSG_BYTES == 512
SHELL_KEYWORDS == {"for", "while", "until", "if", "case", "select", "function",
                   "repeat", "coproc"}

AppName(agent) ==
    IF agent \in SHELL_KEYWORDS \cup LongNames \cup OddNames \cup {""}
    THEN FALLBACK_APP ELSE agent

(* Control characters are dropped; nothing is added once a character did   *)
(* not fit, be the next one ever so small.                                 *)
CleanWhole(text, max) == SelectSeq(text, LAMBDA c : c \notin Control)
Clean(text, max) ==
    LET Add(acc, c) ==
            IF c \in Control \/ acc.full THEN acc
            ELSE IF acc.bytes + Len(Bytes(c)) > max THEN [acc EXCEPT !.full = TRUE]
            ELSE [acc EXCEPT !.text = Append(@, c), !.bytes = @ + Len(Bytes(c))]
    IN  FoldLeft(Add, [text |-> <<>>, bytes |-> 0, full |-> FALSE], text).text

(* A digit of the alphabet is its place in it; PAD is `=`.                 *)
PAD == 64
Base64(bytes) ==
    LET Byte(i) == IF i <= Len(bytes) THEN bytes[i] ELSE 0
        Chunk(k) ==
            LET n == 65536 * Byte(3 * k - 2) + 256 * Byte(3 * k - 1) + Byte(3 * k)
                there == Len(bytes) - 3 * (k - 1)
                digits == <<n \div 262144, (n \div 4096) % 64, (n \div 64) % 64, n % 64>>
            IN  [i \in 1..4 |-> IF i - 1 <= there THEN digits[i] ELSE PAD]
    IN  FlattenSeq([k \in 1..((Len(bytes) + 2) \div 3) |-> Chunk(k)])

(* The fields of a record; an empty title or msg is left out.              *)
Report(state, app, title, msg) ==
    LET Field(text, max) == Base64(BytesOf(Clean(text, max)))
    IN  [state |-> state, app |-> AppName(app),
         title |-> Field(title, MAX_TITLE_BYTES), msg |-> Field(msg, MAX_MSG_BYTES)]
CLEAR == [state |-> "clear", app |-> "", title |-> <<>>, msg |-> <<>>]
=============================================================================
