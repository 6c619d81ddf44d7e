------------------------------- MODULE Search -------------------------------
(***************************************************************************)
(* The multi-pattern matcher that narrows the monitors for a packet: a     *)
(* trie of the literals, the failure links that say where a mismatch       *)
(* resumes, and the search, which reads the text a character at a time.    *)
(*                                                                         *)
(* A node of the trie is the string that leads to it.                      *)
(***************************************************************************)
EXTENDS Naturals, Sequences, SequencesExt, FiniteSets

CONSTANTS
  Chars,       \* the alphabet
  MaxPattern,  \* the longest pattern (bound)
  MaxPatterns, \* patterns of one automaton (bound)
  MaxText      \* the longest text (bound)

ASSUME SearchAssumption == {MaxPattern, MaxPatterns, MaxText} \subseteq Nat

VARIABLES
  patterns,  \* what the automaton was built from
  text,      \* the characters read so far
  node,      \* where the search stands
  found      \* the patterns it has reported

searchVars == <<patterns, text, node, found>>

Strings(n) == UNION {[1..k -> Chars] : k \in 1..n}

-----------------------------------------------------------------------------
(* The automaton. *)

\* _insert(): every prefix of a pattern is a node.
Nodes(P) == {<<>>} \cup UNION {{SubSeq(p, 1, k) : k \in 1..Len(p)} : p \in P}
HasChild(P, n, c) == Append(n, c) \in Nodes(P)
Child(P, n, c) == IF HasChild(P, n, c) THEN Append(n, c) ELSE <<>>

\* MutFail(P): a node resumes below its parent's link or at the root; the rest of the chain is not tried.
MutFail(P) ==
  LET fail[n \in Nodes(P)] == IF Len(n) <= 1 THEN <<>> ELSE Child(P, fail[Front(n)], Last(n)) IN fail

\* _build_fail_links(): a child of the root fails to the root; any other one resumes at the nearest node on its
\* parent's chain of links that has the same child.
Fail(P) ==
  LET fail[n \in Nodes(P)] ==
        IF Len(n) <= 1 THEN <<>>
        ELSE LET c == Last(n)
                 walk[f \in Nodes(P)] == IF f # <<>> /\ ~HasChild(P, f, c) THEN walk[fail[f]] ELSE f
             IN  Child(P, walk[fail[Front(n)]], c)
  IN  fail

\* The patterns that end at a node: its own and those of the node it fails to.
Output(P) ==
  LET fail == Fail(P)
      out[n \in Nodes(P)] == ({n} \cap P) \cup IF n = <<>> THEN {} ELSE out[fail[n]]
  IN  out

\* One character of search().
Advance(P, n, c) ==
  LET fail == Fail(P)
      walk[m \in Nodes(P)] == IF m # <<>> /\ ~HasChild(P, m, c) THEN walk[fail[m]] ELSE m
  IN  Child(P, walk[n], c)

SearchInit ==
  /\ patterns \in {{}} \cup {Range(f) : f \in [1..MaxPatterns -> Strings(MaxPattern)]}
  /\ text = <<>> /\ node = <<>> /\ found = {}

\* search(): nothing is read when there are no patterns.
Read(c) ==
  /\ patterns # {}
  /\ Len(text) < MaxText
  /\ text' = Append(text, c)
  /\ node' = Advance(patterns, node, c)
  /\ found' = found \cup Output(patterns)[node']
  /\ UNCHANGED patterns

SearchNext == \E c \in Chars : Read(c)

-----------------------------------------------------------------------------
(* Properties. *)

Occurs(p, s) == \E i \in 1..(Len(s) - Len(p) + 1) : SubSeq(s, i, i + Len(p) - 1) = p

\* The single pass reports exactly "every distinct pattern that occurs anywhere in" the text, patterns that are
\* suffixes or prefixes of one another included.
FindsAll == found = {p \in patterns : Occurs(p, text)}
=============================================================================
