------------------------------ MODULE Commands ------------------------------
(***************************************************************************)
(* The command tree of cli/cli.go.  A command is registered under names of *)
(* one or more words; what the user types are tokens, each of which may    *)
(* abbreviate a word.  A word is a sequence of letters, a name a sequence  *)
(* of words.                                                               *)
(***************************************************************************)
EXTENDS Integers, Sequences, FiniteSets
LOCAL INSTANCE SequencesExt

CONSTANTS
  Words,      \* bound: the words of names, and the tokens
  MaxWords,   \* bound: words of a name
  MaxCmds     \* bound: commands added

VARIABLES
  cmds,  \* the tree: the names at the end of whose path there is a command
  ran    \* what the last ExecInput did

vars == <<cmds, ran>>

Names == UNION {[1..n -> Words] : n \in 1..MaxWords}

\* The answer of lookup: the command of that name with the rest of the tokens
\* as its arguments, or an error
Found(name, rest) == [err |-> "none", cmd |-> name, args |-> rest]
Error(e) == [err |-> e, cmd |-> <<>>, args |-> <<>>]
ErrAmbiguous == Error("ambiguous")
ErrUnknown == Error("unknown")

Init == cmds = {} /\ ran = ErrUnknown

-----------------------------------------------------------------------------
\* The maps subs and cmds of the sub-command at path p: addCommand makes a
\* sub-command of every word but the last.
subs(p) == {w \in Words : \E c \in cmds : Len(c) > Len(p) + 1 /\ IsPrefix(p \o <<w>>, c)}
cmdsAt(p) == {w \in Words : p \o <<w>> \in cmds}

matching(W, t) == {w \in W : IsPrefix(t, w)}

\* Seeded bug: any word that matches will do
unique_First(W, t) == matching(W, t) # {}

\* uniqueCommand, uniqueSubCommand
unique(W, t) == Cardinality(matching(W, t)) = 1

the(W, t) == CHOOSE w \in matching(W, t) : TRUE

\* lookup from the sub-command at p on; what follows the command are its arguments
RECURSIVE lookup(_, _)
lookup(p, tokens) ==
  IF tokens = <<>> THEN ErrAmbiguous
  ELSE
    LET t == Head(tokens)
        found(w) == Found(p \o <<w>>, Tail(tokens))
    IN IF t \in subs(p) THEN lookup(p \o <<t>>, Tail(tokens))
       ELSE IF unique(subs(p), t) THEN lookup(p \o <<the(subs(p), t)>>, Tail(tokens))
       ELSE IF t \in cmdsAt(p) THEN found(t)
       ELSE IF unique(cmdsAt(p), t) THEN found(the(cmdsAt(p), t))
       ELSE ErrUnknown

\* addCommand; a command of the same name is replaced
AddCommand(name) ==
  /\ Cardinality(cmds) < MaxCmds
  /\ cmds' = cmds \cup {name}
  /\ UNCHANGED ran

\* The command runs and leaves no state behind; its panic becomes an error
ExecInput(tokens) ==
  /\ ran' = lookup(<<>>, tokens)
  /\ UNCHANGED cmds

Next == \E name \in Names : AddCommand(name) \/ ExecInput(name)

Spec == Init /\ [][Next]_vars

-----------------------------------------------------------------------------
TypeOK ==
  /\ cmds \subseteq Names
  /\ ran.err = "none" => ran.cmd \in cmds
  /\ ran.err \in {"none", "ambiguous", "unknown"}

\* Every word of the name is at least as long as the token, which begins it
Abbreviates(tokens, name) ==
  /\ Len(tokens) = Len(name)
  /\ \A i \in DOMAIN name : IsPrefix(tokens[i], name[i])

\* At the first word in which the two names differ, c has the token itself
Preferred(tokens, c, d) ==
  \E i \in DOMAIN c : tokens[i] = c[i] /\ c[i] # d[i] /\ \A j \in 1..i-1 : c[j] = d[j]

\* lookup: what is typed runs only a command that it abbreviates, and no other
\* command unless the word that tells them apart is typed in full; neither the
\* name in full nor anything in between runs another one: to type more of a
\* command at most makes it ambiguous.
AbbreviationsAgree ==
  \A tokens \in Names :
    LET r == lookup(<<>>, tokens)
    IN r.err = "none" /\ r.args = <<>> =>
         /\ r.cmd \in cmds /\ Abbreviates(tokens, r.cmd)
         /\ \A d \in cmds \ {r.cmd} : Abbreviates(tokens, d) => Preferred(tokens, r.cmd, d)
         /\ \A more \in Names : Abbreviates(tokens, more) /\ Abbreviates(more, r.cmd) =>
              lookup(<<>>, more) \in {r, ErrAmbiguous}

=============================================================================
