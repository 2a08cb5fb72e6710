------------------------------- MODULE UrnText -------------------------------
(***************************************************************************)
(* How the text of a reference becomes a store, a root, a resource key and *)
(* a salt: parseDigUrn of assets/sw.js and parseDigRef of                  *)
(* assets/dig-embed.js, which a test holds to the same text, and the       *)
(* relative references that dig-embed.js resolves itself.                  *)
(*                                                                         *)
(* A text is a sequence of tokens: single characters where the code looks  *)
(* for them, "salt=", and words for 64 hex digits ("id", "root"), for a    *)
(* hex digit ("hex") and for any other character ("x").  Capitals and      *)
(* decoration are tokens of their own.  The behaviours of the module type  *)
(* a text token by token, so that every state is an input.                 *)
(***************************************************************************)
EXTENDS Naturals, Sequences, SequencesExt, FiniteSetsExt

CONSTANTS
    None,      \* JavaScript null
    Heads,     \* what URNs begin with, after "urn:dig:chia:" or "chia://"
    Tokens,    \* what texts consist of
    UrnTokens, PathTokens,
    MaxTail,   \* bound on the tokens that are typed
    EntryKey   \* the resource key of the document that references are relative to

\* The tokens that the code writes itself.
Written == {"id", "root", "hex", "/", ":", "?", "salt=", "index.html"}

ASSUME TextAssumption ==
    /\ UrnTokens \cup PathTokens \cup Written \subseteq Tokens
    /\ Heads \subseteq Seq(Tokens) /\ EntryKey \in Seq(Tokens)
    /\ None \notin Seq(Tokens)

VARIABLES kind, head, tail

vars == <<kind, head, tail>>

Init ==
    /\ tail = <<>>
    /\ \/ kind = "urn" /\ head \in Heads
       \/ kind = "path" /\ head = <<>>

Type ==
    /\ Len(tail) < MaxTail
    /\ \E t \in IF kind = "urn" THEN UrnTokens ELSE PathTokens : tail' = Append(tail, t)
    /\ UNCHANGED <<kind, head>>

Next == Type

Spec == Init /\ [][Next]_vars

text == head \o tail

-----------------------------------------------------------------------------
\* The first place of the text, from a place on, where something is; 0 stands for indexOf's -1.
First(places) == IF places = {} THEN 0 ELSE Min(places)
IndexOf(s, t, from) == First({i \in from .. Len(s) : s[i] = t})

Upto(s, i) == SubSeq(s, 1, i)
After(s, i) == SubSeq(s, i + 1, Len(s))

Lower(s) ==
    [i \in DOMAIN s |->
        CASE s[i] = "ID" -> "id" [] s[i] = "ROOT" -> "root" [] s[i] = "HEX" -> "hex" [] OTHER -> s[i]]

Has(s, i, t) == i \in DOMAIN s /\ s[i] = t

-----------------------------------------------------------------------------
(* splitQuery ***************************************************************)

AmpFrom(s, from) == First({i \in from .. Len(s) : s[i] = "&" /\ Has(s, i + 1, "salt=")})

\* Mutant: the next parameter is looked for once.
NotRenewed(s, at, amp) == amp

\* The place of the next parameter is looked for again once the loop has passed it.
Renewed(s, at, amp) == IF amp > 0 /\ amp < at THEN AmpFrom(s, at) ELSE amp

BeginsQuery(s, at, amp) == Has(s, at + 1, "salt=") \/ amp > at

IsHex(t) == t \in {"id", "ID", "root", "ROOT", "hex", "HEX"}

\* The regular expression on the tail: the leftmost parameter that has a hex digit, all of them, and
\* nothing decoded.
SaltOf(s) ==
    LET at == First({i \in DOMAIN s : /\ s[i] = "salt="
                                      /\ i = 1 \/ s[i - 1] \in {"&", "?"}
                                      /\ i + 1 \in DOMAIN s /\ IsHex(s[i + 1])})
        end == Min({i \in at + 1 .. Len(s) + 1 : i > Len(s) \/ ~IsHex(s[i])})
    IN  IF at = 0 THEN None ELSE Lower(SubSeq(s, at + 1, end - 1))

\* A round of the loop over the marks: at is the mark it is at, amp what it knows of the next
\* parameter.  At the mark that begins the query the loop is left.
Round(s, was) ==
    LET amp == Renewed(s, was.at, was.amp)
    IN  IF was.at = 0 \/ BeginsQuery(s, was.at, amp) THEN was
        ELSE [at |-> IndexOf(s, "?", was.at + 1), amp |-> amp]

\* After n rounds; no text has more marks than tokens.
Rounds(s) ==
    LET loop[n \in 0 .. Len(s)] ==
            IF n = 0 THEN [at |-> IndexOf(s, "?", 1), amp |-> AmpFrom(s, 1)] ELSE Round(s, loop[n - 1])
    IN  loop

splitQuery(s) ==
    LET at == Rounds(s)[Len(s)].at
    IN  IF at = 0 THEN [base |-> s, salt |-> None]
        ELSE [base |-> Upto(s, at - 1), salt |-> SaltOf(After(s, at))]

(* parseDigRef **************************************************************)

canonicalizeRoot(s) ==
    LET lower == Lower(s) IN IF Has(lower, 1, "0x") THEN Tail(lower) ELSE lower

Is64Hex(s) == s \in {<<"id">>, <<"root">>}

\* Mutant: one slash is dropped, not all.
DropSlash(s) == IF Has(s, 1, "/") THEN Tail(s) ELSE s

DropSlashes(s) == After(s, Min({i \in 0 .. Len(s) : ~Has(s, i + 1, "/")}))

parseDigRef(s) ==
    LET split == splitQuery(s)
        slash == IndexOf(split.base, "/", 1)
        first == IF slash = 0 THEN split.base ELSE Upto(split.base, slash - 1)
        key   == DropSlashes(IF slash = 0 THEN <<>> ELSE After(split.base, slash))
        colon == IndexOf(first, ":", 1)
        store == Lower(IF colon = 0 THEN first ELSE Upto(first, colon - 1))
        root  == IF colon = 0 THEN <<>> ELSE canonicalizeRoot(After(first, colon))
    IN  IF ~Is64Hex(store) \/ (root # <<>> /\ ~Is64Hex(root)) THEN None
        ELSE [storeId |-> store, root |-> IF root = <<>> THEN None ELSE root,
              resourceKey |-> IF key = <<>> THEN <<"index.html">> ELSE key, salt |-> split.salt]

\* A URN as the loader builds it.
Format(ref) ==
    ref.storeId \o (IF ref.root = None THEN <<>> ELSE <<":">> \o ref.root)
    \o <<"/">> \o ref.resourceKey \o (IF ref.salt = None THEN <<>> ELSE <<"?", "salt=">> \o ref.salt)

-----------------------------------------------------------------------------
(* Relative references: keys are sequences of segments here *****************)

\* Mutant: the fragment stays.
stripQueryOnly(s) == Upto(s, Min({i \in 0 .. Len(s) : i = Len(s) \/ s[i + 1] = "?"}))

stripQueryHash(s) ==
    LET upto(t, u) == Upto(u, Min({i \in 0 .. Len(u) : i = Len(u) \/ u[i + 1] = t}))
    IN  upto("?", upto("#", s))

WithToken(parts, t) ==
    IF t = "/" THEN Append(parts, <<>>) ELSE [parts EXCEPT ![Len(parts)] = Append(@, t)]

\* The segments of the first n tokens.
Segments(s) ==
    LET parts[n \in 0 .. Len(s)] == IF n = 0 THEN <<<<>>>> ELSE WithToken(parts[n - 1], s[n])
    IN  parts

Split(s) == Segments(s)[Len(s)]

Up == <<".", ".">>
Nothing == {<<>>, <<".">>}

\* A round of the loop over the segments, and what it leaves of the first n.
WithPart(out, part) ==
    IF part \in Nothing THEN out
    ELSE IF part # Up THEN Append(out, part)
    ELSE IF out = <<>> THEN out ELSE Front(out)

Walk(parts) ==
    LET out[n \in 0 .. Len(parts)] == IF n = 0 THEN <<>> ELSE WithPart(out[n - 1], parts[n])
    IN  out

normalizePath(s) == Walk(Split(s))[Len(Split(s))]

resolveRelativeResourceKey(base, ref) ==
    LET cleaned == stripQueryHash(ref)
        end == Max({i \in 0 .. Len(base) : i = 0 \/ base[i] = "/"})
    IN  IF cleaned = <<>> THEN Split(DropSlashes(base))
        ELSE IF cleaned[1] = "/" THEN normalizePath(cleaned)
        ELSE normalizePath(Upto(base, end) \o cleaned)

\* classifyReference of what is neither a URN nor begins with a scheme.
IsExternal(ref) ==
    ref = <<>> \/ (Has(ref, 1, "/") /\ Has(ref, 2, "/")) \/ ref[1] = "#"

-----------------------------------------------------------------------------
\* The marks whose tail carries a salt parameter, at its beginning or right after an "&".
Starts(s) ==
    {i \in DOMAIN s : /\ s[i] = "?"
                      /\ \/ Has(s, i + 1, "salt=")
                         \/ \E j \in i + 1 .. Len(s) : s[j] = "&" /\ Has(s, j + 1, "salt=")}

\* The one-pass search for the query finds what its description says: the first such mark.
QueryIsFirst ==
    kind = "urn" =>
        splitQuery(text).base =
            IF Starts(text) = {} THEN text ELSE Upto(text, Min(Starts(text)) - 1)

\* What was parsed can be written as the loader writes it and is parsed to the same store, root, key
\* and salt again: no mark, parameter or slash inside a key is ever taken for syntax the second time.
RoundTrip ==
    kind = "urn" =>
        LET ref == parseDigRef(text) IN ref # None => parseDigRef(Format(ref)) = ref

\* What a URL keeps of the segments of its path: those that no later ".." undoes.  An empty segment is
\* one like any other, which a ".." can undo.
Kept(parts) ==
    LET Ups(i, j)  == Cardinality({m \in i .. j : parts[m] = Up})
        Segs(i, j) == Cardinality({m \in i .. j : parts[m] \notin {<<".">>, Up}})
    IN  {i \in DOMAIN parts : /\ parts[i] \notin {<<".">>, Up}
                              /\ \A j \in i + 1 .. Len(parts) : Ups(i + 1, j) <= Segs(i + 1, j)}

\* A relative reference leads to the segments that its URL would have, in their order, but for the
\* empty ones, which are left out; a reference without a path leads to the document itself.  The
\* exception is a path in which a ".." undoes an empty segment: from d/e/f the URL of a//.. is d/e/a/,
\* and the key is d/e.  What is before the first slash of a path from the root is no segment.
KeyIsResolved ==
    kind = "path" /\ ~IsExternal(text) =>
        LET path == First({i \in DOMAIN text : text[i] \in {"?", "#"}})
            ref  == IF path = 0 THEN text ELSE Upto(text, path - 1)
            all  == IF Has(ref, 1, "/") THEN Split(ref) ELSE Front(Split(EntryKey)) \o Split(ref)
            kept == {i \in Kept(all) : all[i] # <<>>}
            key  == resolveRelativeResourceKey(EntryKey, text)
        IN  IF ref = <<>> THEN key = Split(DropSlashes(EntryKey))
            ELSE (\A i \in 2 .. Len(all) : all[i] = <<>> => i \in Kept(all)) =>
                 /\ Len(key) = Cardinality(kept)
                 /\ \A i \in kept : key[Cardinality({m \in kept : m <= i})] = all[i]
=============================================================================
