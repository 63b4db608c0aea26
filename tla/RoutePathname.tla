--------------------------- MODULE RoutePathname ---------------------------
(***************************************************************************)
(* Route pathnames, request pathnames and how the one is matched with the  *)
(* other.  A request pathname is the sequence of its segments; what is     *)
(* left of one for a sub-router begins with a slash, which is an empty     *)
(* segment in front.  A route pathname is a sequence of literal segments   *)
(* and of slots (":id"), and may end in a wildcard ("*{rest}").  A slot    *)
(* takes one plain segment, of letters, digits and + = * & _ -, and a      *)
(* wildcard any number of them.  The regular expression that the code      *)
(* builds of a route pathname stands for what it accepts.                  *)
(***************************************************************************)
EXTENDS Integers, SequencesExt, FiniteSetsExt

CONSTANT Plain   \* the plain segments; any other only ever equals a literal

Slash      == ""   \* the empty segment
NoWildcard == ""

ASSUME PlainAssumption == Slash \in STRING /\ Plain \subseteq STRING \ {Slash}

Segment  == [slot : BOOLEAN, name : STRING \ {Slash}]
Pathname == [segs : Seq(Segment), wild : STRING]

Literal(name) == [slot |-> FALSE, name |-> name]
Slot(name)    == [slot |-> TRUE, name |-> name]

\* The names of a pathname are the groups of one regular expression: no name twice.
Slots(pat) == {i \in DOMAIN pat.segs : pat.segs[i].slot}
ProperNames(pat) ==
  \A i \in Slots(pat) : /\ pat.segs[i].name # pat.wild
                        /\ \A j \in Slots(pat) : pat.segs[i].name = pat.segs[j].name => i = j

\* normalizeRequestPathname: no slashes in front and at the end.
Normalize(p) ==
  LET kept == {i \in DOMAIN p : p[i] # Slash}
  IN  IF kept = {} THEN <<>> ELSE SubSeq(p, Min(kept), Max(kept))

\* The route pathname, up to its wildcard, takes the first segments of p.
Begins(pat, p) ==
  /\ Len(pat.segs) <= Len(p)
  /\ \A i \in DOMAIN pat.segs :
       IF pat.segs[i].slot THEN p[i] \in Plain ELSE p[i] = pat.segs[i].name

Beyond(pat, p) == SubSeq(p, Len(pat.segs) + 1, Len(p))

\* matchRequestPathnameWithRoutePathname.  An open pathname is that of a sub-router, with
\* an unnamed wildcard appended.
Matches(pat, p, open) ==
  LET q == Normalize(p)
  IN  /\ Begins(pat, q)
      /\ IF pat.wild # NoWildcard \/ open
         THEN \A i \in DOMAIN Beyond(pat, q) : Beyond(pat, q)[i] \in Plain
         ELSE Beyond(pat, q) = <<>>

\* The named groups of the match, as request parameters: a slot's is its segment, a
\* wildcard's the list of its segments.
Groups(pat, p) ==
  LET q     == Normalize(p)
      names == {pat.segs[i].name : i \in Slots(pat)}
      at(n) == CHOOSE i \in Slots(pat) : pat.segs[i].name = n
      wilds == {pat.wild} \ {NoWildcard}
  IN  [n \in names \cup wilds |-> IF n \in wilds THEN Beyond(pat, q) ELSE <<q[at(n)]>>]

\* The spread {...g, ...f} of two objects.
Over(f, g) == [n \in DOMAIN f \cup DOMAIN g |-> IF n \in DOMAIN f THEN f[n] ELSE g[n]]

\* What a sub-router is handed: p without what the route pathname, up to its wildcard,
\* takes at its very beginning.  p is not normalized here, so that nothing is taken from
\* a p that begins with a slash.
Strip(pat, p) ==
  IF pat.segs = <<>> \/ ~Begins(pat, p) THEN p
  ELSE IF Beyond(pat, p) = <<>> THEN <<>>
  ELSE <<Slash>> \o Beyond(pat, p)
=============================================================================
