---------------------------- MODULE CommandLine -----------------------------
(***************************************************************************)
(* The splitters of shell.py: a line is split into statements, these into  *)
(* the segments between && and ||, and these into the stages of a          *)
(* pipeline, each time by a scan of its own.  A line is a sequence of      *)
(* characters, of which the scans tell apart blanks, quotes, the backslash *)
(* and the operators.                                                      *)
(***************************************************************************)
EXTENDS Naturals, Sequences

LOCAL INSTANCE SequencesExt

CONSTANTS Alphabet,   \* the characters of the lines that are checked
          MaxLength   \* bound: their length

ASSUME LengthAssumption == MaxLength \in Nat

Quotes == {"'", "\""}

\* str.strip
Strip(text) ==
    LET solid == {i \in DOMAIN text : text[i] # " "}
    IN  IF solid = {} THEN <<>> ELSE SubSeq(text, Min(solid), Max(solid))

\* Mutation: && and || are looked for one character at a time.
SeparatorSingle(line, i, level) ==
    CASE level = "statements" -> IF line[i] = ";" THEN 1 ELSE 0
      [] level = "conditionals" -> IF line[i] \in {"&", "|"} THEN 1 ELSE 0
      [] level = "pipeline" -> IF line[i] = "|" THEN 1 ELSE 0

\* The length of the operator of a level at place i, 0 if there is none.
Separator(line, i, level) ==
    CASE level = "statements" -> IF line[i] = ";" THEN 1 ELSE 0
      [] level = "conditionals" ->
            IF i < Len(line) /\ SubSeq(line, i, i + 1) \in {<<"&", "&">>, <<"|", "|">>}
            THEN 2 ELSE 0
      [] level = "pipeline" ->
            IF line[i] = "|" /\ ~(i < Len(line) /\ line[i + 1] = "|") THEN 1 ELSE 0

\* The fragments with the one that ends here, unless it is blank.
Closed(st) ==
    IF Strip(st.buf) = <<>> THEN st.fragments
    ELSE Append(st.fragments, [op |-> st.incoming, text |-> Strip(st.buf)])

\* One round of the loop of _split_operators and split_pipeline.
Round(line, level, st) ==
    LET i == st.index
        char == line[i]
        width == Separator(line, i, level)
        keep(n) == [st EXCEPT !.index = i + n, !.buf = @ \o SubSeq(line, i, i + n - 1)]
    IN  IF i > Len(line) THEN st
        ELSE IF st.quote = "" /\ char = "\\" THEN keep(IF i < Len(line) THEN 2 ELSE 1)
        ELSE IF st.quote # "" THEN [keep(1) EXCEPT !.quote = IF char = @ THEN "" ELSE @]
        ELSE IF char \in Quotes THEN [keep(1) EXCEPT !.quote = char]
        ELSE IF width > 0
        THEN [index |-> i + width, buf |-> <<>>, quote |-> "", fragments |-> Closed(st),
              incoming |-> SubSeq(line, i, i + width - 1)]
        ELSE keep(1)

\* split_statements, split_conditionals, split_pipeline, by the level.
Split(line, level) ==
    LET start == [index |-> 1, buf |-> <<>>, quote |-> "", fragments |-> <<>>,
                  incoming |-> <<>>]
        after[k \in 0..Len(line)] ==
            IF k = 0 THEN start ELSE Round(line, level, after[k - 1])
    IN  Closed(after[Len(line)])

\* The commands of a line, as execute and its callees come to them, each with
\* the operator in front of it: ";" for the first one of a statement.
Commands(line) ==
    LET stages(segment, op) ==
            LET parts == Split(segment, "pipeline")
            IN  [k \in DOMAIN parts |->
                   [op |-> IF k = 1 THEN op ELSE <<"|">>, text |-> parts[k].text]]
        segments(statement) ==
            LET parts == Split(statement, "conditionals")
            IN  FlattenSeq([k \in DOMAIN parts |->
                   stages(parts[k].text,
                          IF parts[k].op = <<>> THEN <<";">> ELSE parts[k].op)])
        statements == Split(Strip(line), "statements")
    IN  FlattenSeq([k \in DOMAIN statements |-> segments(statements[k].text)])

-----------------------------------------------------------------------------
(***************************************************************************)
(* Reference: one scan with the rules of shlex, which is what reads the    *)
(* commands in the end.                                                    *)
(***************************************************************************)

\* The scanner's mode behind each character.
Modes(line) ==
    LET mode[i \in 0..Len(line)] ==
            IF i = 0 THEN "bare"
            ELSE LET c == line[i]
                 IN  CASE mode[i - 1] = "bare" ->
                            (CASE c = "\\" -> "escaped" [] c = "'" -> "single"
                               [] c = "\"" -> "double" [] OTHER -> "bare")
                       [] mode[i - 1] = "escaped" -> "bare"
                       [] mode[i - 1] = "single" -> IF c = "'" THEN "bare" ELSE "single"
                       [] mode[i - 1] = "double" ->
                            (CASE c = "\"" -> "bare" [] c = "\\" -> "doubleescaped"
                               [] OTHER -> "double")
                       [] mode[i - 1] = "doubleescaped" -> "double"
    IN  mode

\* The operator at each place, "" where there is none or only its second half.
\* A row of the same character is taken in pairs from its beginning.
OperatorAt(line, modes) ==
    LET bare(i) == i \in DOMAIN line /\ modes[i - 1] = "bare"
        row(j, i) == \A k \in j..i : bare(k) /\ line[k] = line[i]
        even(i) == (i - Min({j \in 1..i : row(j, i)})) % 2 = 0
        pair(i) == bare(i + 1) /\ line[i + 1] = line[i]
    IN  [i \in DOMAIN line |->
           CASE bare(i) /\ line[i] = ";" -> <<";">>
             [] bare(i) /\ line[i] \in {"&", "|"} /\ even(i) /\ pair(i) -> <<line[i], line[i]>>
             [] bare(i) /\ line[i] = "|" /\ even(i) /\ ~pair(i) -> <<"|">>
             [] OTHER -> <<>>]

\* The commands lie between the operators.  Of several operators in front of a
\* command the last && or || behind the last ";" counts, then a ";", then "|".
Reference(line) ==
    LET at == OperatorAt(line, Modes(line))
        cuts == {0} \cup {i \in DOMAIN line : at[i] # <<>>}
        op(c) == IF c = 0 THEN <<";">> ELSE at[c]
        behind(c) == IF c = 0 THEN 1 ELSE c + Len(op(c))
        end(c) == Min({d \in cuts : d > c} \cup {Len(line) + 1}) - 1
        text(c) == Strip(SubSeq(line, behind(c), end(c)))
        full == {c \in cuts : text(c) # <<>>}
        before(c) == {d \in cuts : d <= c /\ ~\E e \in full : d <= e /\ e < c}
        hard(c) == {d \in before(c) : op(d) = <<";">>}
        soft(c) == {d \in before(c) : /\ op(d) \in {<<"&", "&">>, <<"|", "|">>}
                                      /\ \A e \in hard(c) : e < d}
        front(c) == IF soft(c) # {} THEN op(Max(soft(c)))
                    ELSE IF hard(c) # {} THEN <<";">> ELSE <<"|">>
        order == SetToSortSeq(full, <)
    IN  [k \in DOMAIN order |-> [op |-> front(order[k]), text |-> text(order[k])]]

\* Escapes in double quotes, which the splitters do not know.
EscapesInQuotes(line) == \E i \in DOMAIN line : Modes(line)[i] = "doubleescaped"

ShortLines == BoundedSeq(Alphabet, MaxLength)
=============================================================================
