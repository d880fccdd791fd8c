------------------------------- MODULE Names -------------------------------
(***************************************************************************)
(* Utils.sanitize_str (utils/index.py), which AsyncClient applies to the   *)
(* names of buckets and balls, in some places and not in others, and the   *)
(* keys of chunks.  A name is a sequence of characters.  "." stands for    *)
(* every character that is neither a letter, a digit, "-" nor "_"; the     *)
(* characters that are not listed are letters and digits.                  *)
(***************************************************************************)
EXTENDS Naturals, Sequences

Underscore == "_"

Separators == {"-", Underscore}

NoName == <<>>

(* re.findall(r'[a-zA-Z0-9-_]', x), a character at a time                  *)
Keep(done, ch) == IF ch = "." THEN done ELSE Append(done, ch)

Kept(x) ==
  LET upTo[i \in 0..Len(x)] == IF i = 0 THEN <<>> ELSE Keep(upTo[i - 1], x[i])
  IN  upTo[Len(x)]

(* re.sub(r'[-_]{2,}', '-', x): a second separator turns the first to "-". *)
Collapse(done, ch) ==
  IF done # <<>> /\ {done[Len(done)], ch} \subseteq Separators
  THEN [done EXCEPT ![Len(done)] = "-"]
  ELSE Append(done, ch)

Collapsed(x) ==
  LET upTo[i \in 0..Len(x)] == IF i = 0 THEN <<>> ELSE Collapse(upTo[i - 1], x[i])
  IN  upTo[Len(x)]

(* re.sub(r'^-|-$', '', x)                                                 *)
Trimmed(x) ==
  SubSeq(x, IF x # <<>> /\ Head(x) = "-" THEN 2 ELSE 1,
            IF x # <<>> /\ x[Len(x)] = "-" THEN Len(x) - 1 ELSE Len(x))

(* The pattern: separators stand between letters or digits, one at a time. *)
WellFormed(x) ==
  /\ x # <<>>
  /\ \A i \in 1..Len(x) : x[i] \in Separators =>
       i > 1 /\ i < Len(x) /\ x[i + 1] \notin Separators

Sanitize(x) == LET clean == Trimmed(Collapsed(Kept(x)))
               IN  IF WellFormed(clean) THEN clean ELSE NoName

(* f"{name}_{index}"                                                       *)
ChunkKey(name, index) == name \o <<Underscore, index>>
=============================================================================
