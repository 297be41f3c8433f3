--------------------------- MODULE MemoryLifetime ---------------------------
(***************************************************************************)
(* ISimpleLifetimeManager, and what its two derived classes make of it.    *)
(*                                                                         *)
(* While functions are configured, each tensor that needs memory for a     *)
(* while is managed (start_lifetime) and, when nobody configured later     *)
(* uses it, allocated (end_lifetime).  The manager hands each tensor a     *)
(* blob, gives the blob of a tensor that has ended to the next that        *)
(* starts, and, when no tensor is left alive, turns the blobs into the     *)
(* mapping of the memory group that was registered first: to the index of  *)
(* a blob (BlobLifetimeManager) or to an offset in one blob                *)
(* (OffsetLifetimeManager).  The state of both classes is kept side by     *)
(* side: they share all of the base class and nothing else.                *)
(* TransitionMemory has the callers and the specification.                 *)
(***************************************************************************)
EXTENDS Integers, Sequences, FiniteSets, FiniteSetsExt

CONSTANTS
  Objects,     \* tensors; each is managed once (a bound)
  Groups,      \* memory groups, one for each function
  NoGroup,     \* nullptr
  Sizes, Alignments

\* The alignments asked for are powers of two, or 0 for none; Neon tensors
\* ask for 64 when they have none of their own.
ASSUME LifetimeAssumption ==
  /\ NoGroup \notin Groups
  /\ Sizes \subseteq Nat /\ Alignments \subseteq Nat
  /\ \A a, b \in Alignments : 0 < a /\ a <= b => b % a = 0

VARIABLES
  active_group,
  active_elements,   \* object -> size, alignment and whether it has ended
  occupied_blobs,    \* live object -> its blob
  free_blobs,        \* the most recently freed first
  finalized,         \* object -> its element, of _finalized_groups
  blobs,             \* BlobLifetimeManager::_blobs
  blob_mappings,     \* group -> object -> index into blobs
  blob,              \* OffsetLifetimeManager::_blob
  offset_mappings,   \* group -> object -> offset in blob
  met,               \* history: the pairs that have been alive together
  outermost          \* history: object -> the group that was managing when
                     \* nothing else was alive

base == <<active_group, active_elements, occupied_blobs, free_blobs, finalized>>
derived == <<blobs, blob_mappings, blob, offset_mappings>>
history == <<met, outermost>>
lifetime_vars == <<base, derived, history>>

Larger(a, b) == IF a > b THEN a ELSE b
With(f, x, v) == [y \in DOMAIN f \cup {x} |-> IF y = x THEN v ELSE f[y]]
Without(f, x) == [y \in DOMAIN f \ {x} |-> f[y]]
Over(f, h) == [x \in DOMAIN f \cup DOMAIN h |-> IF x \in DOMAIN f THEN f[x] ELSE h[x]]
Info(size, alignment) == [size |-> size, alignment |-> alignment]
Widened(i, j) == Info(Larger(i.size, j.size), Larger(i.alignment, j.alignment))

Managed == DOMAIN active_elements \cup DOMAIN finalized
Alive == DOMAIN occupied_blobs

LifetimeInit ==
  /\ active_group = NoGroup
  /\ active_elements = <<>> /\ occupied_blobs = <<>> /\ free_blobs = <<>>
  /\ finalized = <<>>
  /\ blobs = <<>> /\ blob_mappings = [g \in Groups |-> <<>>]
  /\ blob = Info(0, 0) /\ offset_mappings = [g \in Groups |-> <<>>]
  /\ met = {} /\ outermost = <<>>

-----------------------------------------------------------------------------
(* MemoryGroup::manage.                                                    *)

\* a mutant: the group of every object is registered
RegisteredAlways(g) == g

Registered(g) == IF active_group = NoGroup THEN g ELSE active_group

\* Where a new object lives: in the blob freed last, or in one of its own.
TakeBlob(o) ==
  IF free_blobs = <<>>
  THEN /\ occupied_blobs' = With(occupied_blobs, o, [info |-> Info(0, 0), bound |-> {o}])
       /\ UNCHANGED free_blobs
  ELSE /\ occupied_blobs' = With(occupied_blobs, o, Head(free_blobs))
       /\ free_blobs' = Tail(free_blobs)

Start(g, o) ==
  /\ o \notin Managed
  /\ active_group' = Registered(g)
  /\ TakeBlob(o)
  /\ active_elements' = With(active_elements, o, [info |-> Info(0, 0), ended |-> FALSE])
  /\ met' = met \cup (Alive \X {o}) \cup ({o} \X Alive)
  /\ outermost' = With(outermost, o, IF Alive = {} THEN g
                                     ELSE outermost[CHOOSE p \in Alive : TRUE])
  /\ UNCHANGED <<finalized, derived>>

-----------------------------------------------------------------------------
(* update_blobs_and_mappings, with the list of free blobs fs.              *)

\* The place of blob i after the stable sort in descending order of size.
Rank(fs, i) ==
  Cardinality({j \in DOMAIN fs : \/ fs[j].info.size > fs[i].info.size
                                 \/ fs[j].info.size = fs[i].info.size /\ j < i})

\* a mutant: ++blob_idx is missing
BlobIndexStuck(fs, i) == 0

BlobIndex(fs, i) == Rank(fs, i)

InfoAt(s, k) == IF k \in DOMAIN s THEN s[k] ELSE Info(0, 0)

UpdatedBlobs(fs) ==
  LET group_sizes ==
        [k \in DOMAIN fs |-> fs[CHOOSE i \in DOMAIN fs : Rank(fs, i) = k - 1].info]
  IN  [k \in 1 .. Larger(Len(blobs), Len(fs)) |->
         Widened(InfoAt(blobs, k), InfoAt(group_sizes, k))]

\* a mutant: rounds down
AlignOffsetDown(offset, alignment) ==
  IF alignment # 0 THEN offset - (offset % alignment) ELSE offset

AlignOffset(offset, alignment) ==
  LET remainder == IF alignment # 0 THEN offset % alignment ELSE 0
  IN  IF remainder # 0 THEN offset + (alignment - remainder) ELSE offset

\* Where blob i of fs begins: after those before it, each rounded up.
OffsetOf(fs, alignment) ==
  LET offset[i \in 0 .. Len(fs)] ==
        IF i = 0 THEN 0
        ELSE AlignOffset(offset[i - 1] + fs[i].info.size, alignment)
  IN  [i \in DOMAIN fs |-> offset[i - 1]]

AggregatedSize(fs) ==
  LET size[i \in 0 .. Len(fs)] == IF i = 0 THEN 0 ELSE size[i - 1] + fs[i].info.size
  IN  size[Len(fs)]

MaxAlignment(fs) == Max({blob.alignment} \cup {fs[i].info.alignment : i \in DOMAIN fs})

\* a mutant: no room for the padding
UpdatedBlobTight(fs) == Info(Larger(blob.size, AggregatedSize(fs)), MaxAlignment(fs))

UpdatedBlob(fs) ==
  Info(Larger(blob.size, AggregatedSize(fs) + Len(fs) * MaxAlignment(fs)), MaxAlignment(fs))

\* Every element bound to blob i is mapped to f[i].
Mapped(fs, f) ==
  [o \in UNION {fs[i].bound : i \in DOMAIN fs} |->
     f[CHOOSE i \in DOMAIN fs : o \in fs[i].bound]]

UpdateBlobsAndMappings(fs) ==
  /\ blobs' = UpdatedBlobs(fs)
  /\ blob_mappings' =
       [blob_mappings EXCEPT ![active_group] =
          Over(Mapped(fs, [i \in DOMAIN fs |-> BlobIndex(fs, i)]), @)]
  /\ blob' = UpdatedBlob(fs)
  /\ offset_mappings' =
       [offset_mappings EXCEPT ![active_group] =
          Over(Mapped(fs, OffsetOf(fs, blob'.alignment)), @)]

-----------------------------------------------------------------------------
(* MemoryGroup::finalize_memory.                                           *)

\* a mutant: the last object decides the size
FreedLast(b, o, info) == [info |-> info, bound |-> b.bound \cup {o}]

\* What becomes of the blob b of an object that ends.
Freed(b, o, info) == [info |-> Widened(b.info, info), bound |-> b.bound \cup {o}]

End(o, size, alignment) ==
  /\ o \in Alive
  /\ LET info == Info(size, alignment)
         freed == <<Freed(occupied_blobs[o], o, info)>> \o free_blobs
         elements == [active_elements EXCEPT ![o] = [info |-> info, ended |-> TRUE]]
     IN /\ occupied_blobs' = Without(occupied_blobs, o)
        /\ \/ /\ \E p \in DOMAIN elements : ~elements[p].ended
              /\ active_elements' = elements
              /\ free_blobs' = freed
              /\ UNCHANGED <<active_group, finalized, derived>>
           \/ /\ \A p \in DOMAIN elements : elements[p].ended   \* are_all_finalized
              /\ UpdateBlobsAndMappings(freed)
              /\ finalized' = Over(finalized, elements)
              /\ active_elements' = <<>>
              /\ active_group' = NoGroup
              /\ free_blobs' = <<>>
  /\ UNCHANGED history

-----------------------------------------------------------------------------
(* Properties                                                              *)

Infos == [size : Nat, alignment : Nat]
IsPartial(f, S, T) == DOMAIN f \subseteq S /\ f \in [DOMAIN f -> T]
Aligned(n, alignment) == alignment # 0 => n % alignment = 0
MemoryBlobs == [info : Infos, bound : SUBSET Objects]

\* Types; and everything of a round is gone when its last object has ended,
\* the assertion on _occupied_blobs included.
LifetimeTypeOK ==
  /\ active_group \in Groups \cup {NoGroup}
  /\ IsPartial(active_elements, Objects, [info : Infos, ended : BOOLEAN])
  /\ IsPartial(occupied_blobs, Objects, MemoryBlobs)
  /\ free_blobs \in Seq(MemoryBlobs)
  /\ IsPartial(finalized, Objects, [info : Infos, ended : {TRUE}])
  /\ blobs \in Seq(Infos) /\ blob \in Infos
  /\ DOMAIN blob_mappings = Groups /\ DOMAIN offset_mappings = Groups
  /\ \A g \in Groups : /\ IsPartial(blob_mappings[g], Objects, Nat)
                       /\ IsPartial(offset_mappings[g], Objects, Nat)
  /\ met \subseteq Objects \X Objects
  /\ IsPartial(outermost, Objects, Groups) /\ DOMAIN outermost = Managed
  /\ Alive = {o \in DOMAIN active_elements : ~active_elements[o].ended}
  /\ active_group = NoGroup <=> Alive = {}
  /\ active_group = NoGroup => active_elements = <<>> /\ free_blobs = <<>>

\* Objects alive together, whichever groups managed them, are all mapped by
\* one group, that of the outermost function, which is acquired for as long
\* as any of them is used; and by no other, so none is given memory twice.
OutermostGroupMaps ==
  \A g \in Groups :
    /\ DOMAIN blob_mappings[g] = {o \in DOMAIN finalized : outermost[o] = g}
    /\ DOMAIN offset_mappings[g] = DOMAIN blob_mappings[g]

BlobsApart(o, p, g) == blob_mappings[g][o] # blob_mappings[g][p]
OffsetsApart(o, p, g) ==
  LET at == offset_mappings[g] IN
  \/ at[o] + finalized[o].info.size <= at[p]
  \/ at[p] + finalized[p].info.size <= at[o]

\* Objects that were ever alive together never share a blob, nor a byte of
\* the one blob of an OffsetLifetimeManager.
MeetingApart ==
  \A p \in met, g \in Groups :
    {p[1], p[2]} \subseteq DOMAIN blob_mappings[g]
      => BlobsApart(p[1], p[2], g) /\ OffsetsApart(p[1], p[2], g)

BlobServes(o, g) ==
  LET k == blob_mappings[g][o] + 1 IN
  /\ k \in DOMAIN blobs
  /\ finalized[o].info.size <= blobs[k].size
  /\ Aligned(blobs[k].alignment, finalized[o].info.alignment)

OffsetServes(o, g) ==
  LET at == offset_mappings[g][o] IN
  /\ at + finalized[o].info.size <= blob.size
  /\ Aligned(at, finalized[o].info.alignment)
  /\ Aligned(blob.alignment, finalized[o].info.alignment)

\* A pool made from the blobs, or from the one blob, serves every object
\* mapped so far: what the object is mapped to is there, large enough and
\* aligned, also after other groups have changed the blobs.
MemoryServes ==
  \A g \in Groups : \A o \in DOMAIN blob_mappings[g] : BlobServes(o, g) /\ OffsetServes(o, g)
=============================================================================
