------------------------------- MODULE Overlays -------------------------------
(***************************************************************************)
(* overlays.py: apply_overlays to one contract, called with the same       *)
(* overlays in several orders of arguments.  A document is a function from *)
(* the paths of its nodes to "object", "list" or a scalar; a JSON pointer  *)
(* is the sequence of its tokens.  A list index may be written in several  *)
(* ways, in a document it is written in one.                               *)
(***************************************************************************)
EXTENDS Naturals, Sequences, SequencesExt

CONSTANTS
  Calls,                \* calls of apply_overlays
  Rank,                 \* token -> its place in the order of strings, for
                        \* tokens without characters that come before "/"
  IndexOf,              \* token of digits -> its int value
  IndexToken,           \* int -> its token in documents
  Scalars,              \* strings, numbers, booleans and null
  Identity,             \* paths of apiVersion, kind, version and metadata.name
  IsDataProduct(_)      \* DataProduct.model_validate accepts the document

ASSUME RankAssumption ==
  /\ Rank \in [DOMAIN Rank -> Nat]
  /\ \A s, t \in DOMAIN Rank : Rank[s] = Rank[t] => s = t
ASSUME IndexAssumption ==
  /\ DOMAIN IndexToken \subseteq Nat
  /\ IndexToken \in [DOMAIN IndexToken -> DOMAIN IndexOf \cap DOMAIN Rank]
  /\ \A i \in DOMAIN IndexToken : IndexOf[IndexToken[i]] = i
ASSUME IdentityAssumption == Identity \subseteq Seq(DOMAIN Rank)

VARIABLES
  base,                 \* the contract, dumped as a document
  arguments,            \* per call: the overlays, [name, patches]
  phase,
  document,             \* the document while patches are applied
  pending               \* the set of patches still to be applied

vars == <<base, arguments, phase, document, pending>>

(* The elements of a list. *)
Numbers(doc, n) ==
  {i \in DOMAIN IndexToken : Append(n, IndexToken[i]) \in DOMAIN doc}

(* A tree of objects, lists and scalars; every node but the root is a      *)
(* child of a container, and elements of a list are numbered without gaps. *)
IsDocument(doc) ==
  /\ doc \in [DOMAIN doc -> Scalars \cup {"object", "list"}]
  /\ DOMAIN doc \subseteq Seq(DOMAIN Rank)
  /\ <<>> \in DOMAIN doc
  /\ \A p \in DOMAIN doc \ {<<>>} :
       /\ Front(p) \in DOMAIN doc
       /\ \/ doc[Front(p)] = "object"
          \/ doc[Front(p)] = "list" /\ \E i \in DOMAIN IndexToken : Last(p) = IndexToken[i]
  /\ \A n \in DOMAIN doc : doc[n] = "list" =>
       \A i \in Numbers(doc, n) : 0..i \subseteq Numbers(doc, n)

(* Going down from node n of doc, does a pointer's token lead to child p?  *)
Leads(doc, n, token, p) ==
  \/ doc[n] = "object" /\ p = Append(n, token)
  \/ /\ doc[n] = "list"
     /\ token \in DOMAIN IndexOf
     /\ IndexOf[token] \in DOMAIN IndexToken
     /\ p = Append(n, IndexToken[IndexOf[token]])

(* The node a pointer leads to, or none: a key or index is not there, or a *)
(* scalar is in the way.                                                   *)
Located(doc, pointer) ==
  {n \in DOMAIN doc :
     /\ Len(n) = Len(pointer)
     /\ \A k \in 1..Len(n) :
          Leads(doc, SubSeq(n, 1, k - 1), pointer[k], SubSeq(n, 1, k))}

(* doc with value, a document of its own, for everything at and below n. *)
Replace(doc, n, value) ==
  [p \in {q \in DOMAIN doc : ~IsPrefix(n, q)} \cup {n \o q : q \in DOMAIN value} |->
     IF IsPrefix(n, p) THEN value[SubSeq(p, Len(n) + 1, Len(p))] ELSE doc[p]]

(* Mutant: only equal paths overlap. *)
AreEqual(p, q) == p = q

(* tokens[:shared] == other_tokens[:shared] *)
Overlap(p, q) == IsPrefix(p, q) \/ IsPrefix(q, p)

(* No two patches of a list, or of other places, overlap. *)
Disjoint(patches) ==
  \A j, k \in DOMAIN patches :
    j # k => ~Overlap(patches[j].pointer, patches[k].pointer)

(* Mutant: only the identity fields themselves are protected. *)
TouchesField(pointer) == \E field \in Identity : IsPrefix(field, pointer)

TouchesIdentity(pointer) ==
  \E field \in Identity : IsPrefix(field, pointer) \/ IsPrefix(pointer, field)

(* DataProductOverlay's validator. *)
IsOverlay(o) ==
  /\ Disjoint(o.patches)
  /\ \A k \in DOMAIN o.patches : ~TouchesIdentity(o.patches[k].pointer)

(* All patches of all overlays by their places, with their overlay's name. *)
Patches(overlays) ==
  [at \in UNION {{j} \X DOMAIN overlays[j].patches : j \in DOMAIN overlays} |->
     [owner |-> overlays[at[1]].name,
      pointer |-> overlays[at[1]].patches[at[2]].pointer,
      value |-> overlays[at[1]].patches[at[2]].value]]

PatchesOf(c) == Range(Patches(arguments[c]))

PointerPrecedes(p, q) ==
  \/ IsStrictPrefix(p, q)
  \/ \E k \in DOMAIN p \cap DOMAIN q :
       /\ SubSeq(p, 1, k - 1) = SubSeq(q, 1, k - 1)
       /\ Rank[p[k]] < Rank[q[k]]

Precedes(p, q) ==
  \/ p.owner < q.owner
  \/ p.owner = q.owner /\ PointerPrecedes(p.pointer, q.pointer)

(* Mutant: the patches are not sorted. *)
FirstGiven(patches) == patches

(* The first of the patches, sorted by overlay name and path. *)
First(patches) == {p \in patches : \A q \in patches \ {p} : Precedes(p, q)}

-----------------------------------------------------------------------------
Objects(doc) == {n \in DOMAIN doc : doc[n] = "object"}

(* The contract names its API version, kind, version and itself. *)
IsContract(doc) ==
  /\ IsDocument(doc)
  /\ IsDataProduct(doc)
  /\ \A field \in Identity :
       /\ field \in DOMAIN doc
       /\ \A k \in 0..(Len(field) - 1) : SubSeq(field, 1, k) \in Objects(doc)

(* The syntax of overlays: a pointer has at least one token. *)
AreOverlays(overlays) ==
  \A j \in DOMAIN overlays :
    /\ overlays[j].name \in Nat
    /\ \A k \in DOMAIN overlays[j].patches :
         /\ overlays[j].patches[k].pointer \in Seq(DOMAIN Rank) \ {<<>>}
         /\ IsDocument(overlays[j].patches[k].value)

(* The same overlays, in some other order. *)
IsReordering(s, t) ==
  \E place \in Bijection(DOMAIN s, DOMAIN t) : \A j \in DOMAIN s : t[place[j]] = s[j]

Init ==
  /\ IsContract(base)
  /\ \A c, d \in Calls : AreOverlays(arguments[c]) /\ IsReordering(arguments[c], arguments[d])
  /\ phase = [c \in Calls |-> "given"]
  /\ document = [c \in Calls |-> base]
  /\ pending = [c \in Calls |-> {}]

Goto(c, label) == phase' = [phase EXCEPT ![c] = label]

(* parse_overlay_file of each argument. *)
Parse(c) ==
  /\ phase[c] = "given"
  /\ Goto(c, IF \A k \in DOMAIN arguments[c] : IsOverlay(arguments[c][k])
             THEN "parsed" ELSE "refused")
  /\ UNCHANGED <<base, arguments, document, pending>>

NamesUnique(overlays) ==
  \A j, k \in DOMAIN overlays : overlays[j].name = overlays[k].name => j = k

RejectConflict(c) ==
  /\ phase[c] = "parsed"
  /\ ~NamesUnique(arguments[c]) \/ ~Disjoint(Patches(arguments[c]))
  /\ Goto(c, "refused")
  /\ UNCHANGED <<base, arguments, document, pending>>

OrderPatches(c) ==
  /\ phase[c] = "parsed"
  /\ NamesUnique(arguments[c])
  /\ Disjoint(Patches(arguments[c]))
  /\ Goto(c, "applying")
  /\ pending' = [pending EXCEPT ![c] = PatchesOf(c)]
  /\ UNCHANGED <<base, arguments, document>>

(* Mutant: a key that is not there is added. *)
ReplaceOrAdd(c) ==
  /\ phase[c] = "applying"
  /\ \E patch \in First(pending[c]) :
       /\ document' = [document EXCEPT ![c] = Replace(document[c], patch.pointer, patch.value)]
       /\ pending' = [pending EXCEPT ![c] = @ \ {patch}]
  /\ UNCHANGED <<base, arguments, phase>>

ReplaceNext(c) ==
  /\ phase[c] = "applying"
  /\ \E patch \in First(pending[c]) :
       /\ \E n \in Located(document[c], patch.pointer) :
            document' = [document EXCEPT ![c] = Replace(document[c], n, patch.value)]
       /\ pending' = [pending EXCEPT ![c] = @ \ {patch}]
  /\ UNCHANGED <<base, arguments, phase>>

RejectMissing(c) ==
  /\ phase[c] = "applying"
  /\ \E patch \in First(pending[c]) : Located(document[c], patch.pointer) = {}
  /\ Goto(c, "refused")
  /\ UNCHANGED <<base, arguments, document, pending>>

Validate(c) ==
  /\ phase[c] = "applying"
  /\ pending[c] = {}
  /\ Goto(c, IF IsDataProduct(document[c]) THEN "accepted" ELSE "refused")
  /\ UNCHANGED <<base, arguments, document, pending>>

Over == \A c \in Calls : phase[c] \in {"refused", "accepted"}

Return ==
  /\ Over
  /\ UNCHANGED vars

Next ==
  \/ \E c \in Calls :
       \/ Parse(c)
       \/ RejectConflict(c)
       \/ OrderPatches(c)
       \/ ReplaceNext(c)
       \/ RejectMissing(c)
       \/ Validate(c)
  \/ Return

Spec == Init /\ [][Next]_vars

-----------------------------------------------------------------------------
(* Applying patches leaves a document that can be read as JSON. *)
TypeOK ==
  /\ phase \in [Calls -> {"given", "parsed", "applying", "refused", "accepted"}]
  /\ DOMAIN document = Calls /\ DOMAIN pending = Calls
  /\ \A c \in Calls : IsDocument(document[c]) /\ pending[c] \subseteq PatchesOf(c)

(* RFC-0005: results do not depend on the order of the arguments.  Two     *)
(* calls with the same overlays both fail, or return the same document.    *)
SameForEveryOrder ==
  Over => \A c, d \in Calls :
            /\ phase[c] = phase[d]
            /\ phase[c] = "accepted" => document[c] = document[d]

(* RFC-0005: API version, kind, version and name survive every overlay,    *)
(* neither replaced themselves nor with something they are part of.        *)
IdentityIsKept ==
  \A c \in Calls :
    phase[c] = "accepted" =>
      \A field \in Identity :
        field \in DOMAIN document[c] /\ document[c][field] = base[field]

(* The part of a document at and below node n, as a document of its own. *)
Below(doc, n) ==
  [q \in {SubSeq(p, Len(n) + 1, Len(p)) : p \in {p \in DOMAIN doc : IsPrefix(n, p)}}
     |-> doc[n \o q]]

(* Every index is written as documents write it. *)
PlainlyWritten(c) ==
  \A patch \in PatchesOf(c) : \A k \in DOMAIN patch.pointer :
    patch.pointer[k] \in DOMAIN IndexOf
      => patch.pointer[k] = IndexToken[IndexOf[patch.pointer[k]]]

(* An accepted document is the contract with every patch in it, whole, and *)
(* nothing else changed, if list indexes are written plainly: no patch     *)
(* undoes another or adds what was not there.                              *)
PatchesTakeEffect ==
  \A c \in Calls :
    phase[c] = "accepted" /\ PlainlyWritten(c) =>
      /\ \A patch \in PatchesOf(c) :
           patch.pointer \in DOMAIN base /\ Below(document[c], patch.pointer) = patch.value
      /\ \A p \in DOMAIN base \cup DOMAIN document[c] :
           \/ \E patch \in PatchesOf(c) : IsPrefix(patch.pointer, p)
           \/ /\ p \in DOMAIN base \cap DOMAIN document[c]
              /\ document[c][p] = base[p]

(* RFC-0005: "Within and across overlays, duplicate paths and              *)
(* ancestor/descendant paths are conflicts": accepted patches replace      *)
(* nodes of the contract that are not part of one another.                 *)
ConflictsAreRefused ==
  \A c \in Calls :
    phase[c] = "accepted" =>
      \A p, q \in PatchesOf(c) : p # q =>
        \A m \in Located(base, p.pointer), n \in Located(base, q.pointer) : ~Overlap(m, n)
=============================================================================
