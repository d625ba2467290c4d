---------------------------- MODULE DocumentSession ----------------------------
(***************************************************************************)
(* An incremental document session (incremental/src/session.rs with        *)
(* cache.rs and identity.rs, the lineage graph of artifact/src/lib.rs and   *)
(* the source map and parser of the syntax crate): a LaTeX source, the     *)
(* blocks parsed from it with their identities and spans, the caches of    *)
(* their outputs and the lineage of those outputs.                         *)
(*                                                                         *)
(* The source is a sequence of pieces of length one, kept apart by white   *)
(* space of length zero: a piece is a formula with its delimiters, or a    *)
(* run of text.                                                            *)
(***************************************************************************)
EXTENDS Naturals, Sequences, SequencesExt, FiniteSets, Functions

CONSTANTS
  Bodies,          \* formulas, up to the white space in them
  Spacings,        \* ways to put white space into a formula
  Modes,           \* delimiters: inline and display
  Texts,           \* runs of text
  Externals,       \* identities a host binds
  Formats,         \* output formats ...
  VisualFormats,   \* ... and those that are rendered, not converted
  CacheSize,       \* max_entries of a cache
  Retentions,      \* revisions of history a policy keeps, MaxRevision for all of them
  MaxLength,       \* bound on the pieces of a source
  MaxRevision,     \* bound on the revision
  MaxOutputs,      \* bound on the outputs in the lineage
  MaxOpened,       \* bound on the pieces of a source that is opened
  MaxInserted      \* bound on the pieces a range is replaced by

ASSUME ExternalsApart == Externals \cap Nat = {}
ASSUME VisualsAreFormats == VisualFormats \subseteq Formats
ASSUME SourceIsNoFormat == "source" \notin Formats
ASSUME BoundsCount ==
  {CacheSize, MaxLength, MaxRevision, MaxOutputs, MaxOpened, MaxInserted} \cup Retentions \subseteq Nat
ASSUME OpenedFit == MaxOpened <= MaxLength /\ 1 <= MaxLength

VARIABLES
  source,          \* the text
  blocks,          \* the document with its source map
  bound,           \* ids allocated by the session so far
  revision,
  caches,          \* the semantic and the render cache, least recently used first
  mapped,          \* mapped_renders
  lineage,         \* artifact_graph, latest_artifact_ids, stale_artifact_ids
  retained         \* artifact_history_policy: revisions kept, MaxRevision for all

outputs == <<caches, mapped>>
vars == <<source, blocks, bound, revision, outputs, lineage, retained>>

FormulaPieces == [kind : {"formula"}, body : Bodies, spacing : Spacings, mode : Modes]
TextPieces == [kind : {"paragraph"}, body : Texts]
Pieces == FormulaPieces \cup TextPieces

IsFormula(x) == x.kind = "formula"
Classes == {"semantic", "render"}
Class(format) == IF format \in VisualFormats THEN "render" ELSE "semantic"

\* latest_artifact_ids and the graph name an artifact by node, form and revision.
Sourced(id, r) == [node |-> id, form |-> "source", revision |-> r]
Derived(id, format, r) == [node |-> id, form |-> format, revision |-> r]
IsSource(a) == a.form = "source"
-----------------------------------------------------------------------------
(* The parser *)

\* Each formula is a block, text between formulas is a paragraph.
GoesOn(bs, x) == bs # <<>> /\ ~IsFormula(x) /\ ~IsFormula(bs[Len(bs)])

Longer(b, x, n) == [b EXCEPT !.content = Append(@, x), !.end = n]

WithPiece(bs, x, n) ==
  IF GoesOn(bs, x)
  THEN [bs EXCEPT ![Len(bs)] = Longer(@, x, n)]
  ELSE Append(bs, [kind |-> x.kind, content |-> <<x>>, start |-> n - 1, end |-> n])

Parsed(s) ==
  LET parsed[n \in 0..Len(s)] == IF n = 0 THEN <<>> ELSE WithPiece(parsed[n - 1], s[n], n)
  IN parsed[Len(s)]

\* What is left of a block when its identity is: the document of verify_full_equivalence.
Anonymous(bs) ==
  [k \in DOMAIN bs |-> [kind |-> bs[k].kind, content |-> bs[k].content,
                        start |-> bs[k].start, end |-> bs[k].end]]

Identified(b, id) ==
  [id |-> id, kind |-> b.kind, content |-> b.content, start |-> b.start, end |-> b.end]

Ids(bs) == {bs[k].id : k \in DOMAIN bs}
Formulas(bs) == {b \in Range(bs) : IsFormula(b)}
Latex(b) == [body |-> b.content[1].body, spacing |-> b.content[1].spacing]

\* The content hash, which leaves white space and delimiters out.
Hash(b) == [i \in DOMAIN b.content |-> b.content[i].body]
-----------------------------------------------------------------------------
(* Spans *)

Minus(n, m) == IF n < m THEN 0 ELSE n - m

\* adjust_span, for start and end of a block when [from, to) becomes n pieces long.
AdjustedInside(b, from, to, n) ==
  IF b.end <= from \/ b.start >= to THEN b ELSE [b EXCEPT !.end = Minus(@ + n, to - from)]

Adjusted(b, from, to, n) ==
  LET moved(x) == Minus(x + n, to - from)
  IN IF b.end <= from THEN b
     ELSE IF b.start >= to THEN [b EXCEPT !.start = moved(@), !.end = moved(@)]
     ELSE [b EXCEPT !.end = moved(@)]

AllAdjusted(from, to, n) == [k \in DOMAIN blocks |-> Adjusted(blocks[k], from, to, n)]

Spliced(s, from, to, new) == SubSeq(s, 1, from) \o new \o SubSeq(s, to + 1, Len(s))

Overlap(b, c) == b.start < c.end /\ c.start < b.end
-----------------------------------------------------------------------------
(* Matching the blocks of a new parse with the old ones: match_node_identities *)

\* The content of a neighbour, none at the end of the document.
Beside(bs, k) == IF k \in DOMAIN bs THEN Hash(bs[k]) ELSE <<"none">>

Score(old, new, i, k) ==
  LET distance(m, n) == IF m < n THEN n - m ELSE m - n
  IN   (IF Hash(old[i]) = Hash(new[k]) THEN 10000 ELSE 0)
     + (IF Beside(old, i - 1) = Beside(new, k - 1) THEN 300 ELSE 0)
     + (IF Beside(old, i + 1) = Beside(new, k + 1) THEN 300 ELSE 0)
     + (IF Overlap(old[i], new[k]) THEN 3000 ELSE 0)
     + (2000 - distance(old[i].start, new[k].start))

\* Of several candidates of the best score the last one is taken.
BestOf(score) ==
  LET C == DOMAIN score
  IN CHOOSE i \in C : \A j \in C : score[i] > score[j] \/ (score[i] = score[j] /\ i >= j)

AcceptsAnyway(b, c) == TRUE

Accepts(b, c) == Hash(b) = Hash(c) \/ Overlap(b, c)

\* The old block that block k of the new ones goes on, 0 for none: one of the same content
\* if there is one left, else one of the same kind.
Candidates(old, new, taken, k) ==
  LET same == {i \in DOMAIN old \ Range(taken) : old[i].kind = new[k].kind}
      exact == {i \in same : Hash(old[i]) = Hash(new[k])}
  IN IF exact # {} THEN exact ELSE same

Choice(old, new, taken, k) ==
  LET C == Candidates(old, new, taken, k)
      best == BestOf([i \in C |-> Score(old, new, i, k)])
  IN IF C # {} /\ Accepts(old[best], new[k]) THEN best ELSE 0

\* Each block in its turn.
Matched(old, new) ==
  LET matched[k \in 0..Len(new)] ==
        IF k = 0 THEN <<>> ELSE Append(matched[k - 1], Choice(old, new, matched[k - 1], k))
  IN matched[Len(new)]
-----------------------------------------------------------------------------
(* The lineage *)

Over(made, graph) ==
  [a \in DOMAIN made \cup DOMAIN graph |-> IF a \in DOMAIN made THEN made[a] ELSE graph[a]]

\* record_artifact: each of the artifacts of made becomes the latest of its kind;
\* an output comes from the latest source.
Replaces(p, a) == p.node = a.node /\ p.form = a.form
IsOrigin(p, a) == p.node = a.node /\ IsSource(p) /\ ~IsSource(a)

WithArtifacts(l, made) ==
  LET new == DOMAIN made
      from == {e \in l.latest \X new : Replaces(e[1], e[2]) \/ IsOrigin(e[1], e[2])}
      others == {p \in l.latest : \A a \in new : ~Replaces(p, a)}
  IN [l EXCEPT !.graph = Over(made, @), !.edges = @ \cup from, !.latest = others \cup new]

\* compact_artifact_history: what is the latest of its kind stays.
CompactedByRevision(l, r, kept) ==
  LET stay == {a \in DOMAIN l.graph : a.revision >= Minus(r, kept)}
  IN [l EXCEPT !.graph = Restrict(@, stay), !.edges = @ \cap (stay \X stay),
               !.stale = @ \cap stay]

Compacted(l, r, kept) ==
  LET stay == {a \in DOMAIN l.graph : a \in l.latest \/ a.revision >= Minus(r, kept)}
  IN [l EXCEPT !.graph = Restrict(@, stay), !.edges = @ \cap (stay \X stay),
               !.stale = @ \cap stay]

\* descendants_of
After(edges, from) == {e[2] : e \in {d \in edges : d[1] \in from}}

Descendants(edges, from) ==
  LET reached[n \in 0..Cardinality(edges)] ==
        IF n = 0 THEN After(edges, from) ELSE reached[n - 1] \cup After(edges, reached[n - 1])
  IN reached[Cardinality(edges)]

\* invalidate_artifact_descendants, for each of the ids.
InvalidatedUnmarked(l, ids) ==
  [l EXCEPT !.latest = {a \in @ : a.node \in ids => IsSource(a)}]

Invalidated(l, ids) ==
  [l EXCEPT
     !.stale = @ \cup Descendants(l.edges, {a \in l.latest : a.node \in ids /\ IsSource(a)}),
     !.latest = {a \in @ : a.node \in ids => IsSource(a)}]

\* record_source_artifacts_for: the formulas among the ids.
WithSources(l, r, bs) ==
  LET sourceOf(a) == CHOOSE b \in bs : b.id = a.node
  IN IF bs = {} THEN l
     ELSE Compacted(WithArtifacts(l, [a \in {Sourced(b.id, r) : b \in bs} |-> sourceOf(a).content]),
                    r, retained)

\* remove_stable_id, for each of the ids.
Without(seq, ids) ==
  LET kept[n \in 0..Len(seq)] ==
        IF n = 0 THEN <<>>
        ELSE IF seq[n].node \in ids THEN kept[n - 1] ELSE Append(kept[n - 1], seq[n])
  IN kept[Len(seq)]
-----------------------------------------------------------------------------
NoLineage == [graph |-> <<>>, edges |-> {}, latest |-> {}, stale |-> {}]

Opened(s, ids) ==
  /\ source = s
  /\ blocks = [k \in DOMAIN Parsed(s) |-> Identified(Parsed(s)[k], ids[k])]
  /\ bound = Len(blocks)
  /\ revision = 0
  /\ caches = [c \in Classes |-> <<>>] /\ mapped = {}
  /\ retained = MaxRevision
  /\ lineage = WithArtifacts(NoLineage,
       [a \in {Sourced(b.id, 0) : b \in Formulas(blocks)} |->
          (CHOOSE b \in Formulas(blocks) : b.id = a.node).content])

FromLatex(s) == Opened(s, [k \in DOMAIN s |-> k])

\* from_formula_with_stable_id: what was recorded under the session's own id is dropped.
FromFormula(piece, external) == Opened(<<piece>>, <<external>>)

Init ==
  \/ \E s \in BoundedSeq(Pieces, MaxOpened) : FromLatex(s)
  \/ \E piece \in FormulaPieces, external \in Externals :
       piece.mode = "inline" /\ FromFormula(piece, external)

\* bind_external_stable_id: before the first edit and the first output of the block.
Bind(k, external) ==
  LET id == blocks[k].id
      previous == {a \in lineage.latest : a.node = id}
      made == Sourced(external, 0)
      recorded == WithArtifacts([lineage EXCEPT !.latest = @ \ previous],
                    [a \in {made} |-> IF IsFormula(blocks[k]) THEN blocks[k].content ELSE <<>>])
  IN /\ revision = 0 /\ external \notin Ids(blocks)
     /\ \A a \in previous : IsSource(a)
     /\ blocks' = [blocks EXCEPT ![k].id = external]
     /\ lineage' = [Compacted(recorded, 0, retained) EXCEPT
                      !.edges = @ \cup (previous \X {made})]
     /\ caches' = [c \in Classes |-> Without(caches[c], {id})]
     /\ mapped' = {m \in mapped : m.node # id}
     /\ UNCHANGED <<source, bound, revision, retained>>
-----------------------------------------------------------------------------
(* Edits: apply_edit *)

\* After an edit: its nodes are invalidated, the revision goes on, and the sources
\* of the formulas among them are recorded.
Dirties(ids) ==
  /\ caches' = [c \in Classes |-> Without(caches[c], ids)]
  /\ mapped' = {m \in mapped : m.node \notin ids}
  /\ revision' = revision + 1
  /\ lineage' = WithSources(Invalidated(lineage, ids), revision',
                            {b \in Formulas(blocks') : b.id \in ids})
  /\ UNCHANGED retained

\* The block's own text is replaced and nothing is parsed.
EditsInPlace(k, from, to, new) ==
  /\ revision < MaxRevision
  /\ source' = Spliced(source, from, to, new)
  /\ Len(source') <= MaxLength
  /\ blocks' = [AllAdjusted(from, to, Len(new)) EXCEPT ![k].content = new]
  /\ Dirties({blocks[k].id})
  /\ UNCHANGED bound

EditFormula(k, latex) ==
  LET b == blocks[k]
      piece == [b.content[1] EXCEPT !.body = latex.body, !.spacing = latex.spacing]
  IN IsFormula(b) /\ EditsInPlace(k, b.start, b.end, <<piece>>)

EditParagraph(k, text) ==
  LET b == blocks[k]
  IN ~IsFormula(b) /\ EditsInPlace(k, b.start, b.end, text)

\* reconcile_current_source and what its callers do afterwards: block k of the new
\* parse goes on the old block from[k], or gets a fresh identity.
Provisional(from, k) == k

Allocated(from, k) == bound + Cardinality({j \in 1..k : from[j] = 0})

Reconciled(old, new, from) ==
  LET ids == [k \in DOMAIN new |-> IF from[k] = 0 THEN Allocated(from, k) ELSE old[from[k]].id]
      changed == {k \in DOMAIN new : from[k] = 0 \/ Hash(old[from[k]]) # Hash(new[k])}
      gone == {old[i].id : i \in DOMAIN old \ Range(from)}
  IN /\ blocks' = [k \in DOMAIN new |-> Identified(new[k], ids[k])]
     /\ bound' = bound + Cardinality({k \in DOMAIN new : from[k] = 0})
     /\ \E dirty \in {gone \cup {ids[k] : k \in changed}} : Dirties(dirty)

Reconciles(old, s) ==
  /\ source' = s
  /\ \E before \in {old}, after \in {Parsed(s)} :
       \E from \in {Matched(before, after)} : Reconciled(before, after, from)

ReplaceSourceRange(from, to, new) ==
  /\ revision < MaxRevision
  /\ Len(Spliced(source, from, to, new)) <= MaxLength
  /\ Reconciles(AllAdjusted(from, to, Len(new)), Spliced(source, from, to, new))

\* A single block behind another one, or in front.
InsertBlock(after, piece) == ReplaceSourceRange(after, after, <<piece>>)

DeleteBlock(k) == ReplaceSourceRange(blocks[k].start, blocks[k].end, <<>>)

\* The block's text is cut out and put behind another block's, or in front; for the
\* spans the whole source is replaced by as much.
MoveBlock(k, after) ==
  LET b == blocks[k]
      rest == Spliced(source, b.start, b.end, <<>>)
      at == IF after >= b.end THEN after - (b.end - b.start) ELSE after
  IN /\ revision < MaxRevision
     /\ Reconciles(blocks, Spliced(rest, at, at, SubSeq(source, b.start + 1, b.end)))

\* reconcile_full counts a revision only if the document changes.
ReconcileFull ==
  /\ revision < MaxRevision
  /\ Anonymous(blocks) # Parsed(source)
  /\ Reconciles(blocks, source)
-----------------------------------------------------------------------------
(* Outputs: convert_formula and render_formula *)

Hits(e, b, format) == e.node = b.id /\ e.latex = Latex(b) /\ e.format = format

Entry(b, format) ==
  [node |-> b.id, latex |-> Latex(b), format |-> format, output |-> b.content[1]]

Places(b, format) ==
  {i \in DOMAIN caches[Class(format)] : Hits(caches[Class(format)][i], b, format)}

\* A hit is used and counts as such for the eviction.
Recall(k, format) ==
  /\ IsFormula(blocks[k])
  /\ \E i \in Places(blocks[k], format) :
       caches' = [caches EXCEPT ![Class(format)] = Append(RemoveAt(@, i), @[i])]
  /\ UNCHANGED <<source, blocks, bound, revision, mapped, lineage, retained>>

\* BoundedCache::insert: an entry above max_bytes is not kept; else those used least
\* recently make room for it, in number and in bytes, whose sizes are left open.
Inserted(entries, e) ==
  {entries} \cup {s \in Suffixes(Append(entries, e)) : Len(s) \in 1..CacheSize}

Derive(k, format) ==
  LET b == blocks[k]
      made == Derived(b.id, format, revision)
  IN /\ IsFormula(b) /\ Places(b, format) = {}
     /\ Cardinality({a \in DOMAIN lineage.graph : ~IsSource(a)}) < MaxOutputs
     /\ \E entries \in Inserted(caches[Class(format)], Entry(b, format)) :
          caches' = [caches EXCEPT ![Class(format)] = entries]
     /\ mapped' = IF Class(format) = "render"
                  THEN {m \in mapped : m.node # b.id} \cup {[node |-> b.id, output |-> b.content[1]]}
                  ELSE mapped
     /\ lineage' = Compacted(WithArtifacts(lineage, [a \in {made} |-> b.content]),
                             revision, retained)
     /\ UNCHANGED <<source, blocks, bound, revision, retained>>

SetPolicy(revisions) ==
  /\ retained' = revisions
  /\ lineage' = Compacted(lineage, revision, revisions)
  /\ UNCHANGED <<source, blocks, bound, revision, outputs>>
-----------------------------------------------------------------------------
Positions == 0..Len(source)
Replacements == BoundedSeq(Pieces, MaxInserted)
ParagraphTexts == BoundedSeq(TextPieces, 1)

Structural ==
  \/ \E from \in Positions : \E to \in from..Len(source), new \in Replacements :
       ReplaceSourceRange(from, to, new)
  \/ \E after \in {0} \cup {b.end : b \in Range(blocks)}, piece \in Pieces : InsertBlock(after, piece)
  \/ \E k \in DOMAIN blocks :
       \/ DeleteBlock(k)
       \/ \E after \in {0} \cup {blocks[j].end : j \in DOMAIN blocks \ {k}} : MoveBlock(k, after)
  \/ ReconcileFull

Local ==
  \E k \in DOMAIN blocks :
     \/ \E body \in Bodies, spacing \in Spacings :
          EditFormula(k, [body |-> body, spacing |-> spacing])
     \/ \E text \in ParagraphTexts : EditParagraph(k, text)

Outputs == \E k \in DOMAIN blocks, format \in Formats : Recall(k, format) \/ Derive(k, format)

Next ==
  \/ \E k \in DOMAIN blocks, external \in Externals : Bind(k, external)
  \/ Structural \/ Local \/ Outputs
  \/ \E revisions \in Retentions : SetPolicy(revisions)

Spec == Init /\ [][Next]_vars
-----------------------------------------------------------------------------
(* Properties *)

\* Every local edit is equivalent to a clean rebuild, as long as no paragraph has
\* been emptied in place: the empty span of such a paragraph does not grow again
\* (session.rs:1199-1210, docs/incremental-scope.md:43-45).
LocalEditsAreRebuilds ==
  (\A b \in Range(blocks) : b.start < b.end) => Anonymous(blocks) = Parsed(source)

Identities == 1..bound \cup Externals
Artifacts == [node : Identities, form : Formats \cup {"source"}, revision : 0..revision]

\* Identities in the document are distinct and were given out (identity.rs:64-108), and
\* the latest artifacts, one of a kind, are in the graph (session.rs:899-969).
TypeOK ==
  /\ Range(source) \subseteq Pieces /\ Len(source) <= MaxLength
  /\ \A b \in Range(blocks) :
       /\ Range(b.content) \subseteq Pieces
       /\ b.start <= b.end /\ b.end <= Len(source)
       /\ IsFormula(b) => Len(b.content) = 1 /\ IsFormula(b.content[1])
  /\ Ids(blocks) \subseteq Identities
  /\ Cardinality(Ids(blocks)) = Len(blocks)
  /\ revision \in 0..MaxRevision /\ retained \in Retentions \cup {MaxRevision}
  /\ \A c \in Classes : Len(caches[c]) <= CacheSize
  /\ DOMAIN lineage.graph \subseteq Artifacts
  /\ lineage.latest \subseteq DOMAIN lineage.graph
  /\ Cardinality({<<a.node, a.form>> : a \in lineage.latest}) = Cardinality(lineage.latest)

CurrentFormula(id, content) ==
  \E b \in Formulas(blocks) : b.id = id /\ b.content[1].body = content[1].body

\* What is served or not marked stale was made of the formula that now bears its
\* identity, up to white space and delimiters: the caches, the mapped renders and the
\* artifacts (session.rs:756-812).
OutputsAreCurrent ==
  /\ \A c \in Classes : \A e \in Range(caches[c]) : CurrentFormula(e.node, <<e.output>>)
  /\ \A m \in mapped : CurrentFormula(m.node, <<m.output>>)
  /\ \A a \in DOMAIN lineage.graph \ lineage.stale :
       ~IsSource(a) => CurrentFormula(a.node, lineage.graph[a])

LatestSource(id, s) == s \in DOMAIN lineage.graph /\ s.node = id /\ IsSource(s)

\* The latest output of a formula is kept by every policy, is not marked stale, and
\* comes from the latest source of that formula, which is of its present content
\* (session.rs:882-969, docs/incremental-scope.md:25-29).
LatestComeFromLatest ==
  /\ \A a \in lineage.latest : ~IsSource(a) =>
       /\ a \in DOMAIN lineage.graph \ lineage.stale
       /\ \E s \in lineage.latest : LatestSource(a.node, s) /\ <<s, a>> \in lineage.edges
  /\ \A b \in Formulas(blocks) : \E s \in lineage.latest :
       LatestSource(b.id, s) /\ CurrentFormula(b.id, lineage.graph[s])

Only(bs, b) == \A c \in Formulas(bs) : Hash(c) = Hash(b) => c = b

\* A formula that is the only one of its content before and after an edit keeps its
\* identity, unless a range that covers it is replaced by several pieces: the first of
\* them may take it (session.rs:1036-1087, docs/incremental-scope.md:11-13).
UniqueKeepIdentity ==
  [][revision' # revision =>
       \A b \in Formulas(blocks), c \in Formulas(blocks') :
          Hash(b) = Hash(c) /\ Only(blocks, b) /\ Only(blocks', c) /\ b.id # c.id =>
            \E from \in Positions : \E to \in from..Len(source), new \in Replacements :
               /\ from < b.end /\ b.start < to /\ Len(new) > 1
               /\ ReplaceSourceRange(from, to, new)]_vars

\* A cache hit returns what a conversion would return now (session.rs:316-319, 348-351).
HitsAreCurrent ==
  \A b \in Formulas(blocks), format \in Formats :
     \A i \in Places(b, format) : caches[Class(format)][i].output = b.content[1]
=============================================================================
