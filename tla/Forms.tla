------------------------------- MODULE Forms -------------------------------
(***************************************************************************)
(* From the lines typed at the prompt to the forms that are evaluated:     *)
(* Prompt_readline joins lines until Stu_is_valid_form finds no bracket    *)
(* open, the grammar makes a list of the forms (Stu_parse_buf), and        *)
(* Sv_eval_list evaluates it from the first to the last.                   *)
(*                                                                         *)
(* A text is a sequence of tokens.  Atoms are alike; a quote stands for    *)
(* every token the grammar wants a form after and the validator does not   *)
(* look at.  Dotted pairs and field accessors are left out.                *)
(***************************************************************************)
EXTENDS Integers, Sequences, SequencesExt, FiniteSets

CONSTANTS
    VALIDATOR_STACK_SIZE,
    LineLength,   \* bound: tokens in a line
    MaxTyped      \* bound: tokens typed in a session

ASSUME FormsAssumption ==
    VALIDATOR_STACK_SIZE \in Nat \ {0} /\ LineLength \in Nat /\ MaxTyped \in Nat

VARIABLES
    control,    \* where main's loop is: reading a line, with a form to evaluate, over
    form,       \* the text in *form; <<>> also before the first line
    __cont,     \* will the prompt ask for more of it?
    ended,      \* did el_gets return NULL when it was last called?
    forms,      \* the forms of the text submitted last, evaluated one by one
    typed,      \* all that has been typed in this session
    submitted   \* all that Prompt_readline has returned

vars == <<control, form, __cont, ended, forms, typed, submitted>>

Tokens == {"(", ")", "[", "]", "'", "a"}
Opposite(t) == IF t = ")" THEN "(" ELSE "["

Texts(n) == UNION {[1 .. k -> Tokens] : k \in 0 .. n}
-----------------------------------------------------------------------------
\* Mutant of TooDeep: the level that just fits is refused.
TooDeepEarly(stack) == Len(stack) + 1 >= VALIDATOR_STACK_SIZE

\* May one more bracket be open?
TooDeep(stack) == Len(stack) >= VALIDATOR_STACK_SIZE

\* One token of the loop in Stu_is_valid_form.
Checked(v, t) ==
    IF ~v.valid THEN v
    ELSE IF t \in {"(", "["}
    THEN IF TooDeep(v.stack) THEN [v EXCEPT !.valid = FALSE]
         ELSE [v EXCEPT !.stack = Append(@, t)]
    ELSE IF t \in {")", "]"}
    THEN IF v.stack = <<>> \/ Last(v.stack) # Opposite(t) THEN [v EXCEPT !.valid = FALSE]
         ELSE [v EXCEPT !.stack = Front(@)]
    ELSE v

\* The validator after all tokens of the text.
CheckedAll(text) ==
    LET after[i \in 0 .. Len(text)] ==
            IF i = 0 THEN [valid |-> TRUE, stack |-> <<>>]
            ELSE Checked(after[i - 1], text[i])
    IN  after[Len(text)]

Stu_is_valid_form(text) ==
    LET v == CheckedAll(text)
    IN  CASE ~v.valid -> "invalid"
          [] v.valid /\ v.stack # <<>> -> "partial"
          [] v.valid /\ v.stack = <<>> -> "valid"
-----------------------------------------------------------------------------
\* The parser's state: what is open, the tokens of the form at the top level
\* so far, the last form completed there (the value of "forms", NULL if none),
\* and the list of those before it, last first.
ParserInit == [open |-> <<>>, cur |-> <<>>, last |-> <<>>, list |-> <<>>, error |-> FALSE]

\* What is left open once a form is complete: the quotes before it are done.
Unquoted(open) == SubSeq(open, 1, SelectLastInSeq(open, LAMBDA t : t # "'"))

\* Mutant of Completed: the form just read is put on the list.
CompletedNew(p, open) ==
    IF Unquoted(open) # <<>> THEN [p EXCEPT !.open = Unquoted(open)]
    ELSE [p EXCEPT !.open = <<>>, !.cur = <<>>, !.last = <<p.cur>>,
                   !.list = IF p.last = <<>> THEN @ ELSE <<p.cur>> \o @]

\* A form is complete; at the top level, "forms: forms sexp" puts the one
\* before it on the list.
Completed(p, open) ==
    IF Unquoted(open) # <<>> THEN [p EXCEPT !.open = Unquoted(open)]
    ELSE [p EXCEPT !.open = <<>>, !.cur = <<>>, !.last = <<p.cur>>,
                   !.list = p.last \o @]

\* One token.  A syntax error ends the parsing.
Parsed(p0, t) ==
    LET p == [p0 EXCEPT !.cur = Append(@, t)]
    IN  IF p0.error THEN p0
        ELSE IF t = "a" THEN Completed(p, p.open)
        ELSE IF t \notin {")", "]"} THEN [p EXCEPT !.open = Append(@, t)]
        ELSE IF p.open # <<>> /\ Last(p.open) = Opposite(t) THEN Completed(p, Front(p.open))
        ELSE [p0 EXCEPT !.error = TRUE]

\* Mutant of Listed: the form completed last is not put on the list.
ListedButLast(p) == p.list

\* The list yyparse leaves: "stu: forms" adds the last form if nothing is open
\* by then, for it is reduced whatever token comes next.
Listed(p) == IF p.open = <<>> THEN p.last \o p.list ELSE p.list

\* The parser after all tokens of the text.
ParsedAll(text) ==
    LET after[i \in 0 .. Len(text)] ==
            IF i = 0 THEN ParserInit ELSE Parsed(after[i - 1], text[i])
    IN  after[Len(text)]

Stu_parse_buf(text) == Reverse(Listed(ParsedAll(text)))

NIL == <<"(", ")">>

\* Sv_eval_list goes on until it finds a NIL in the list, or at its end.
Evaluated(list) == SubSeq(list, 1, SelectInSeq(Append(list, NIL), LAMBDA f : f = NIL) - 1)
-----------------------------------------------------------------------------
Init ==
    /\ control = "read"
    /\ form = <<>>
    /\ __cont = FALSE
    /\ ended = FALSE
    /\ forms = <<>>
    /\ typed = <<>> /\ submitted = <<>>

\* Mutant of AsksForMore: only the last line is looked at.
AsksForMoreOfLine(text, line) == Stu_is_valid_form(line) = "partial"

\* Is there a bracket open in the text read so far?
AsksForMore(text, line) == Stu_is_valid_form(text) = "partial"

\* Prompt_readline reads a line, joins it to the form, and returns the form
\* unless it is incomplete.
ReadLine(line) ==
    /\ control = "read"
    /\ Len(typed) + Len(line) <= MaxTyped
    /\ form' = form \o line
    /\ typed' = typed \o line
    /\ ended' = FALSE
    /\ IF AsksForMore(form', line)
       THEN __cont' = TRUE /\ UNCHANGED <<control, submitted>>
       ELSE /\ __cont' = FALSE
            /\ control' = "submit"
            /\ submitted' = submitted \o form'
    /\ UNCHANGED forms

\* The end of the input in a form: what there is of it is returned.
EndInForm ==
    /\ control = "read" /\ __cont
    /\ ended' = TRUE
    /\ control' = "submit"
    /\ submitted' = submitted \o form
    /\ __cont' = FALSE
    /\ UNCHANGED <<form, forms, typed>>

\* The end of the input between two forms: main leaves its loop.
Bye ==
    /\ control = "read" /\ ~__cont
    /\ control' = "over"
    /\ ended' = TRUE
    /\ form' = <<>>
    /\ UNCHANGED <<__cont, forms, typed, submitted>>

\* main evaluates the form, unless it is an empty line, and reads the next.
Eval ==
    /\ control = "submit"
    /\ forms' = IF form = <<>> THEN <<>> ELSE Evaluated(Stu_parse_buf(form))
    /\ form' = <<>>
    /\ control' = "read"
    /\ UNCHANGED <<__cont, ended, typed, submitted>>

\* Another session.
Restart ==
    /\ control = "over" /\ control' = "read"
    /\ ended' = FALSE
    /\ forms' = <<>>
    /\ typed' = <<>> /\ submitted' = <<>>
    /\ UNCHANGED <<form, __cont>>

Next ==
    \/ \E line \in Texts(LineLength) : ReadLine(line)
    \/ EndInForm
    \/ Bye
    \/ Eval
    \/ Restart

Spec == Init /\ [][Next]_vars
-----------------------------------------------------------------------------
(* Balanced brackets, defined on the text itself: each span of it is empty,*)
(* or a token and a balanced span, or a pair of brackets around one and    *)
(* before another.                                                         *)
Pairs == {<<"(", ")">>, <<"[", "]">>}
IsBracket(t) == \E p \in Pairs : t \in {p[1], p[2]}

Spans(text) == (1 .. Len(text) + 2) \X (0 .. Len(text))

IsBalanced(text) ==
    LET balanced[s \in Spans(text)] ==
            \/ s[1] > s[2]
            \/ ~IsBracket(text[s[1]]) /\ balanced[<<s[1] + 1, s[2]>>]
            \/ \E k \in s[1] + 1 .. s[2] :
                  /\ <<text[s[1]], text[k]>> \in Pairs
                  /\ balanced[<<s[1] + 1, k - 1>>] /\ balanced[<<k + 1, s[2]>>]
    IN  balanced[<<1, Len(text)>>]

\* Some closing brackets would make it so.
IsPartial(text) ==
    ~IsBalanced(text) /\ \E closing \in [1 .. Len(text) -> {")", "]"}], n \in 1 .. Len(text) :
        IsBalanced(text \o SubSeq(closing, 1, n))

Count(text, n, ts) == Cardinality({i \in 1 .. n : text[i] \in ts})
Depth(text, n) == Count(text, n, {"(", "["}) - Count(text, n, {")", "]"})
IsShallow(text) == \A n \in 1 .. Len(text) : Depth(text, n) <= VALIDATOR_STACK_SIZE

(* The validator tells balanced text, text that closing brackets would     *)
(* balance, and all other from each other (check/test_valid_form.c), and   *)
(* refuses only what is nested deeper than its stack.                      *)
VerdictExact ==
    Stu_is_valid_form(form) =
        CASE IsShallow(form) /\ IsBalanced(form) -> "valid"
          [] IsShallow(form) /\ IsPartial(form) -> "partial"
          [] OTHER -> "invalid"

(* The text typed reaches the reader once, in order and cut only where no  *)
(* bracket is open, unless the input ends there: the prompt asks for more  *)
(* exactly while the form is incomplete.                                   *)
CutsBetweenForms ==
    /\ typed = submitted \o (IF control = "read" THEN form ELSE <<>>)
    /\ control = "read" => (__cont <=> IsShallow(form) /\ IsPartial(form))
    /\ control = "submit" /\ ~ended => ~(IsShallow(form) /\ IsPartial(form))

\* The grammar, again on spans of the text: one form, or any number of them.
InGrammar(what, text) ==
    LET derives[d \in {"form", "forms"} \X Spans(text)] ==
            LET i == d[2][1]
                j == d[2][2]
            IN  IF d[1] = "forms"
                THEN i > j \/ \E k \in i .. j :
                        derives[<<"form", <<i, k>>>>] /\ derives[<<"forms", <<k + 1, j>>>>]
                ELSE /\ i <= j
                     /\ \/ text[i] = "a" /\ i = j
                        \/ text[i] = "'" /\ derives[<<"form", <<i + 1, j>>>>]
                        \/ <<text[i], text[j]>> \in Pairs
                              /\ derives[<<"forms", <<i + 1, j - 1>>>>]
    IN  derives[<<what, <<1, Len(text)>>>>]

\* Every quote has something to quote.
QuotesApply(text) == \A i \in DOMAIN text :
    text[i] = "'" => i < Len(text) /\ text[i + 1] \notin {")", "]"}

(* The validator and the reader agree: of a text found valid, every form   *)
(* is evaluated, from the first to the last. But a quote without a form is *)
(* valid and no form, and a () at the top level ends the list (sv.c:776).  *)
ValidIsEvaluated ==
    control = "submit" /\ Stu_is_valid_form(form) = "valid" /\ QuotesApply(form) =>
        LET list == Stu_parse_buf(form)
        IN  NIL \notin ToSet(list) =>
                /\ FlattenSeq(Evaluated(list)) = form
                /\ \A i \in DOMAIN list : InGrammar("form", list[i])

(* Of any other text the reader keeps the forms that are complete, whole,  *)
(* up to the first that is not: all of them, or all but the last.          *)
LosesLastOnly ==
    control = "submit" =>
        LET list == Stu_parse_buf(form)
            kept == Len(FlattenSeq(list))
            wholes == {n \in 0 .. Len(form) : InGrammar("forms", SubSeq(form, 1, n))}
            whole == CHOOSE n \in wholes : \A m \in wholes : m <= n
        IN  /\ FlattenSeq(list) = SubSeq(form, 1, kept)
            /\ \A i \in DOMAIN list : InGrammar("form", list[i])
            /\ kept = whole \/ InGrammar("form", SubSeq(form, kept + 1, whole))
=============================================================================
