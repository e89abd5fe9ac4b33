------------------------------ MODULE Selection ------------------------------
(***************************************************************************)
(* Which messages reach a context: the lexical hits of a query and the     *)
(* later mentions linked to them (search.py), their order and bounds in a  *)
(* retrieval result (retrieve.py), and what prepare_context() and          *)
(* pack_context() make of it (memory.py).                                  *)
(*                                                                         *)
(* A message is its sequence number, with one text part.  Of a text, a     *)
(* message has: whether the query matches it, how much room it takes, the  *)
(* name-like words it mentions, and which of them best_anchor() picks.     *)
(***************************************************************************)
EXTENDS Integers, FiniteSetsExt, SequencesExt

CONSTANTS
    Texts,
    Names,
    NoName,         \* best_anchor() found none
    LastSeq,        \* messages of the history
    MaxLinked,      \* MAX_LINKED
    MaxMessages,    \* of a context, and of the hits searched for it
    MaxRoom,        \* max_chars of a context
    MaxEvidence     \* max_evidence_text_scalars of a retrieval result

ASSUME SelectionAssumption ==
    /\ NoName \notin Names
    /\ {LastSeq, MaxLinked, MaxMessages, MaxRoom, MaxEvidence} \subseteq Nat \ {0}

Messages == 1..LastSeq

VARIABLES
    stage,
    text,       \* of each message
    matches,    \* the texts that the query matches
    long,       \* the texts that take two units of room; the others take one
    mentions,   \* the names in a text
    anchor,     \* the one that best_anchor() picks
    hits,       \* the lexical candidates, best first
    pairs,      \* a hit and the later mention linked to it
    evidence,   \* the result of retrieve(), best first
    limited,    \* coverage_limited
    selected    \* the messages of the context

corpus == <<text, matches, long, mentions, anchor>>
selectionVars == <<stage, text, matches, long, mentions, anchor, hits, pairs, evidence,
                   limited, selected>>

SelectionInit ==
    /\ stage = "search"
    /\ text \in [Messages -> Texts]
    /\ matches \in SUBSET Texts
    /\ long \in SUBSET Texts
    /\ mentions \in [Texts -> SUBSET Names]
    /\ anchor \in [Texts -> Names \cup {NoName}]
    /\ \A t \in Texts : anchor[t] \in mentions[t] \cup {NoName}
    /\ hits = <<>> /\ pairs = <<>> /\ evidence = <<>> /\ limited = FALSE
    /\ selected = {}

-----------------------------------------------------------------------------
Room(m) == IF text[m] \in long THEN 2 ELSE 1
RoomOf(set) == Cardinality(set) + Cardinality({m \in set : text[m] \in long})

First(list, n) == SubSeq(list, 1, IF n < Len(list) THEN n ELSE Len(list))

(* The members of a set, in the order of a list. *)
Only(set, list) ==
    FlattenSeq([i \in DOMAIN list |-> IF list[i] \in set THEN <<list[i]>> ELSE <<>>])

NewestFirst(set) == Only(set, [i \in Messages |-> LastSeq + 1 - i])

(* A dictionary that keeps the first place of a key. *)
Put(list, m) == IF m \in ToSet(list) THEN list ELSE Append(list, m)
PutAll(list, more) == FoldLeft(Put, list, more)

(* _search_in_snapshot: every match counts alike here. *)
Hits == First(NewestFirst({m \in Messages : text[m] \in matches}), MaxMessages)

(* linked_corrections, for one of the four best hits: the newest later     *)
(* mention of its anchor, in other words, that is not linked yet.          *)
Link(found, source) ==
    LET later == {m \in Messages :
                     /\ m > source
                     /\ anchor[text[source]] \in mentions[text[m]]
                     /\ text[m] # text[source]
                     /\ \A i \in DOMAIN found : found[i].linked # m}
    IN IF later = {} \/ Len(found) >= MaxLinked THEN found
       ELSE Append(found, [source |-> source, linked |-> Max(later)])

Pairs(list) == FoldLeft(Link, <<>>, First(list, 4))

(* A link follows the text of its source. *)
LinkedTo(links, m) ==
    LET same == Only({pair \in ToSet(links) : text[pair.source] = text[m]}, links)
    IN [i \in DOMAIN same |-> same[i].linked]

(* Each hit is followed by what is linked to it. *)
Lexical(list, links) ==
    PutAll(<<>>, FlattenSeq([i \in DOMAIN list |-> <<list[i]>> \o LinkedTo(links, list[i])]))

(* The items that still fit, one after the other. *)
Keep(kept, m) ==
    IF RoomOf(ToSet(kept)) + Room(m) <= MaxEvidence THEN Append(kept, m) ELSE kept

Bounded(list) == FoldLeft(Keep, <<>>, list)

(* Variant: links that push a hit or a mention out are not counted. *)
LimitedByHits(list, links, kept, offered) ==
    Len(list) >= MaxMessages \/ Len(kept) < Len(offered)

Limited(list, links, kept, offered) ==
    \/ Len(list) >= MaxMessages
    \/ Len(Lexical(list, links)) > MaxMessages
    \/ Len(kept) < Len(offered)

-----------------------------------------------------------------------------
(* prepare_context *)

(* The first source of a text stands for its copies. *)
Original(list, m) == Min({n \in ToSet(list) : text[n] = text[m]})

Representative(list, m) == IF m \in ToSet(list) THEN Original(list, m) ELSE m

Candidates(list, recent) ==
    LET originals == PutAll(<<>>, [i \in DOMAIN list |-> Original(list, list[i])])
        copies(m) == Only({n \in ToSet(list) : text[n] = text[m] /\ n # m}, list)
    IN PutAll(recent, originals \o FlattenSeq([i \in DOMAIN originals |-> copies(originals[i])]))

(* The links that retrieve() returns: both ends are among the evidence. *)
ReturnedLinks(list, links) ==
    {link \in ToSet(list) \X ToSet(list) :
        link[1] \in ToSet(hits) /\ link[2] \in ToSet(LinkedTo(links, link[1]))}

(* A copy's newer statement also governs the copy that stands for it. *)
PackLinks(list, links) ==
    {<<Representative(list, link[1]), Representative(list, link[2])>> :
        link \in ReturnedLinks(list, links)}

-----------------------------------------------------------------------------
(* pack_context *)

Fits(chosen, more) ==
    /\ Cardinality(chosen) + Cardinality(more) <= MaxMessages
    /\ RoomOf(chosen) + RoomOf(more) <= MaxRoom

Admit(pack, more) ==
    IF Fits(pack.admitted, more) THEN [pack EXCEPT !.admitted = @ \cup more] ELSE pack

AdmitEach(pack, list) == FoldLeft(LAMBDA p, m : Admit(p, {m}), pack, list)

Newer(links, offered, m) ==
    {l \in ToSet(offered) : l # m /\ <<m, l>> \in links}

(* Variant: a source is tried although its newer statement was left out. *)
ConsiderAnyway(links, offered, pack, m) ==
    LET pending == Newer(links, offered, m) \ pack.considered
        seen == [pack EXCEPT !.considered = @ \cup {m} \cup pending]
    IN IF Cardinality(pack.admitted) >= MaxMessages \/ m \in pack.considered THEN pack
       ELSE IF Fits(pack.admitted, {m} \cup pending) THEN Admit(seen, {m} \cup pending)
       ELSE AdmitEach(seen, NewestFirst(pending))

(* One candidate of the loop. *)
Consider(links, offered, pack, m) ==
    LET newer == Newer(links, offered, m)
        pending == newer \ pack.admitted
        leftOut == (newer \cap pack.considered) \ pack.admitted
        seen == [pack EXCEPT !.considered = @ \cup {m}]
        all == [pack EXCEPT !.considered = @ \cup {m} \cup pending]
    IN IF Cardinality(pack.admitted) >= MaxMessages \/ m \in pack.considered THEN pack
       ELSE IF leftOut # {} THEN seen
       ELSE IF Fits(pack.admitted, {m} \cup pending) THEN Admit(all, {m} \cup pending)
       ELSE AdmitEach(all, NewestFirst(pending))

Choice(links, offered) ==
    FoldLeft(LAMBDA pack, m : Consider(links, offered, pack, m),
             [admitted |-> {}, considered |-> {}], offered)

Packed(links, offered) == Choice(links, offered).admitted

-----------------------------------------------------------------------------
Search ==
    /\ stage = "search"
    /\ hits' = Hits
    /\ pairs' = Pairs(Hits)
    /\ stage' = "order"
    /\ UNCHANGED <<corpus, evidence, limited, selected>>

(* After the navigation, which may add the messages of a chunk, here of a  *)
(* chunk of one message.                                                   *)
Retrieve ==
    /\ stage = "order"
    /\ \E chunk \in {<<>>} \cup {<<m>> : m \in Messages} :
          LET offered == PutAll(First(Lexical(hits, pairs), MaxMessages), chunk)
          IN /\ evidence' = Bounded(offered)
             /\ limited' = Limited(hits, pairs, Bounded(offered), offered)
    /\ stage' = "pack"
    /\ UNCHANGED <<corpus, hits, pairs, selected>>

(* With up to max_messages of the newest messages as recent messages. *)
Prepare ==
    /\ stage = "pack"
    /\ \E n \in 0..MaxMessages :
          LET recent == NewestFirst((LastSeq + 1 - n)..LastSeq) IN
             selected' = Packed(PackLinks(evidence, pairs), Candidates(evidence, recent))
    /\ stage' = "done"
    /\ UNCHANGED <<corpus, hits, pairs, evidence, limited>>

SelectionNext == Search \/ Retrieve \/ Prepare

SelectionSpec == SelectionInit /\ [][SelectionNext]_selectionVars

-----------------------------------------------------------------------------
(* A hit that retrieve() returns without the later mention it found for it *)
(* is never presented as full coverage: whichever limit parted them, the   *)
(* result says so.  retrieve.py: coverage_limited.                         *)
SeparationReported ==
    stage \in {"pack", "done"} =>
        \A m \in ToSet(hits) \cap ToSet(evidence) :
            ToSet(LinkedTo(pairs, m)) \subseteq ToSet(evidence) \/ limited

(* A context does not restate a superseded message while there is room to  *)
(* correct it.  For every message in it with the text of a source, the     *)
(* first copies stand: if that of the source is there, so is that of what  *)
(* is linked to it, unless another source brought the first one along; and *)
(* if what is linked is missing, it no longer fits, unless it is a source  *)
(* itself and was left out for what is linked to it.   memory.py: "when    *)
(* both cannot fit, only the newer ones are packed, and the source is      *)
(* never packed without them".                                             *)
NewerStatementFirst ==
    stage = "done" =>
        LET links == PackLinks(evidence, pairs)
            brought(m) == \E link \in links : link[2] = m /\ link[1] # m
            corrected(m) == \E link \in links : link[1] = m /\ link[2] # m
        IN \A link \in ReturnedLinks(evidence, pairs), s \in selected :
              LET source == Representative(evidence, link[1])
                  newer  == Representative(evidence, link[2])
              IN text[s] = text[link[1]] =>
                    /\ source \in selected /\ ~brought(source) => newer \in selected
                    /\ ~corrected(newer) =>
                          newer \in selected \/ ~Fits(selected, {newer})
=============================================================================
