--------------------------- MODULE BlockingSearch ---------------------------
(***************************************************************************)
(* core/src/search/blocking.rs: the calls of the command line, which drive *)
(* a searcher to its end, one window after the other, with nobody else     *)
(* touching the document.  letters are those of the document's added bytes *)
(* (SearchJob); a cancelled call is not modelled.                          *)
(***************************************************************************)
EXTENDS SearchJob

\* Enough steps for both passes, window by window, and their ends.
Steps(text) == 2 * Len(text) + 4

Extended(before, st) == [searcher |-> st.searcher, out |-> before.out \o st.out]

\* job::sweep: steps until the searcher ends or `limit` matches are found.
Swept(s0, p, text, unread, limit) ==
  LET f[k \in Nat] ==
        IF k = 0 THEN [searcher |-> s0, out |-> <<>>]
        ELSE LET before == f[k - 1]
             IN  IF before.searcher.finished \/ Len(before.out) >= limit THEN before
                 ELSE Extended(before, Stepped(before.searcher, p, text, unread, Window))
  IN  f[Steps(text)].out

\* The set of the match found, or {}.
FindNext(text, unread, p, range, from, backward, wrap) ==
  LET s == NewSearcher(range[1], range[2], Len(text), from, backward, wrap, Len(p))
      out == Swept(s, p, text, unread, 1)
  IN  IF out = <<>> THEN {} ELSE {out[IF backward THEN Len(out) ELSE 1]}

FindAll(text, unread, p, range, limit) ==
  LET s == NewSearcher(range[1], range[2], Len(text), range[1], FALSE, FALSE, Len(p))
      out == Swept(s, p, text, unread, limit)
  IN  SubSeq(out, 1, Smaller(Len(out), limit))

\* A plausible slip: the search goes on at the length of the match.
BehindMatch(at, p, r) == at + Len(p)

BehindReplacement(at, p, r) == at + Len(r)

\* The loop's variables after a search: unchanged, or after the replacement.
AfterSearch(b, found, p, r) ==
  IF found = {} THEN b
  ELSE CHOOSE next \in
         {[doc |-> MergedAfter(ApplyReplacement(b.doc, at, Len(p), Len(r)), b.count),
           letters |-> b.letters \o r,
           pos |-> BehindReplacement(at, p, r),
           stop |-> b.stop + Len(r) - Len(p),
           count |-> b.count + 1] : at \in found} : TRUE

\* replace_all: a fresh searcher for every match, from behind the last one to
\* the corrected end; the document and its letters after it, and the count.
ReplaceAll(d, ls, p, r, range) ==
  LET stop == Smaller(range[2], Length(d))
      found(b) == FindNext(TextOf(b.doc, b.letters), UnreadIn(b.doc), p,
                           <<b.pos, b.stop>>, b.pos, FALSE, FALSE)
      f[k \in Nat] ==
        IF k = 0
          THEN [doc |-> d, letters |-> ls, pos |-> Smaller(range[1], stop), stop |-> stop,
                count |-> 0]
          ELSE AfterSearch(f[k - 1], found(f[k - 1]), p, r)
  IN  f[Length(d) + 1]
=============================================================================
