-------------------------------- MODULE Slab --------------------------------
(***************************************************************************)
(* The kernel's heap (slab.cpp): runs of free pages, zones cut into chunks *)
(* of one size, and the descriptor of every page, all under heap_sem.      *)
(* Addresses are bytes from heap_start and sizes are the code's own.  A    *)
(* call gives up the lock between its parts: every take is a step, and so  *)
(* is what runs from there to the release.  heap_sem is the semaphore that *)
(* Semaphore promises: a release hands it to the first waiting thread.     *)
(***************************************************************************)
EXTENDS Integers, Sequences, FiniteSets, FiniteSetsExt, SequencesExt

CONSTANTS HeapIdle,      \* the idle thread, which only frees
          ReleaseThresh, \* ZONE_RELEASE_THRESH, 2 in the code
          HeapUses,      \* uses: users, pages, sizes asked for, bound on blocks
          MaxHeapSem     \* bound: the value of heap_sem with which calls begin

VARIABLES huse,          \* the use at hand
          page_list,     \* the free runs, [at, n] in pages
          zone_array,    \* for each zone index in use, its zones with free chunks
          zone_free,     \* the free zones
          zone,          \* the headers of the zones that hold chunks
          memusage,      \* type and size of every page
          used_mem,
          heap_sem,      \* its value and the threads that wait
          hpc, hloc,     \* where each user is, and what its call works on
          live           \* the blocks handed out: at, size, zone index (history)

heapvars == <<huse, page_list, zone_array, zone_free, zone, memusage, used_mem,
              heap_sem, hpc, hloc, live>>

PageSize == 4096
zone_size == 32768
zone_limit == zone_size \div 4
ZonePages == zone_size \div PageSize
HeaderSize == 36          \* sizeof(slab_zone)
NoBlock == -1             \* the null pointer

RoundUp(n, grain) == ((n + grain - 1) \div grain) * grain
Page(addr) == addr \div PageSize

(* Below, grain and first index of the bands of zoneindex().               *)
Bands == << <<128, 8, -1>>, <<256, 16, 7>>, <<512, 32, 15>>, <<1024, 64, 23>>,
            <<2048, 128, 31>>, <<4096, 256, 39>>, <<8192, 512, 47>>,
            <<16384, 1024, 55>> >>

Band(n) == Bands[SelectInSeq(Bands, LAMBDA b : n < b[1])]

ChunkSize(n) == IF n < 16384 THEN RoundUp(n, Band(n)[2]) ELSE n
zoneindex(n) == ChunkSize(n) \div Band(n)[2] + Band(n)[3]

IsPower(n) == \E k \in 0..14 : n = 2^k
Offset(size) == RoundUp(HeaderSize, IF IsPower(size) THEN size ELSE 8)

NoCall == [size |-> 0, addr |-> NoBlock, old |-> NoBlock, zi |-> -1]

HeapInit ==
  /\ huse \in HeapUses
  /\ page_list = <<[at |-> 1, n |-> huse.pages - 1]>>   \* page 0: memusage
  /\ zone_array = [i \in {zoneindex(s) : s \in {x \in huse.sizes : x < zone_limit}} |-> <<>>]
  /\ zone_free = <<>>
  /\ zone = [z \in {} |-> 0]
  /\ memusage = [p \in 0..(huse.pages - 1) |-> [type |-> "FREE", size |-> 0]]
  /\ used_mem = 0
  /\ heap_sem = [value |-> 1, queue |-> <<>>]
  /\ hpc = [t \in huse.users |-> "out"]
  /\ hloc = [t \in huse.users |-> NoCall]
  /\ live = {}
-----------------------------------------------------------------------------
(* The lock.                                                               *)

Waiting(t) == Contains(heap_sem.queue, t)
Inside(t) == /\ ~Waiting(t)
             /\ hpc[t] \in {"p_alloc", "p_free", "m_body", "m_large", "m_new", "f_large", "f_small"}

(* Mutant of HeapAt: idle runs when threads are ready.                     *)
HeapAt_any(t, l) == hpc[t] = l /\ ~Waiting(t)

(* Idle runs when every other user sleeps outside the heap or waits.       *)
HeapAt(t, l) == /\ hpc[t] = l /\ ~Waiting(t)
                /\ t = HeapIdle => \A u \in huse.users \ {t} : Waiting(u) \/ hpc[u] = "out"

HeapGoto(t, l) == hpc' = [hpc EXCEPT ![t] = l]

take(t) == heap_sem' = IF heap_sem.value > 0
                       THEN [heap_sem EXCEPT !.value = @ - 1]
                       ELSE [heap_sem EXCEPT !.queue = Append(@, t)]

release == heap_sem' = IF heap_sem.queue # <<>>
                       THEN [heap_sem EXCEPT !.queue = Tail(@)]
                       ELSE [heap_sem EXCEPT !.value = @ + 1]

Local(t, f, v) == hloc' = [hloc EXCEPT ![t][f] = v]

(* kmalloc returns addr: to its caller, or to krealloc, which then frees   *)
(* the old block, except when there is no new one.                         *)
HeapReturn(t, addr) ==
  /\ live' = IF addr = NoBlock THEN live
             ELSE live \cup {[at |-> addr, size |-> hloc[t].size, zi |-> hloc[t].zi]}
  /\ IF hloc[t].old # NoBlock /\ addr # NoBlock
     THEN /\ HeapGoto(t, "kfree")
          /\ hloc' = [hloc EXCEPT ![t] = [NoCall EXCEPT !.addr = hloc[t].old]]
     ELSE HeapGoto(t, "out") /\ hloc' = [hloc EXCEPT ![t] = NoCall]
-----------------------------------------------------------------------------
(* The page allocator.                                                     *)

(* The first run with room gives up its first pages.                       *)
FirstFit(n) == SelectInSeq(page_list, LAMBDA b : b.n >= n)

Cut(i, n) == IF page_list[i].n = n THEN RemoveAt(page_list, i)
             ELSE ReplaceAt(page_list, i, [at |-> page_list[i].at + n, n |-> page_list[i].n - n])

Large(t) == hloc[t].zi = -1
PagesOf(t) == IF Large(t) THEN hloc[t].size \div PageSize ELSE ZonePages

(* Mutant of page_alloc: it returns without pages before its release.      *)
page_alloc_keeps(t) ==
  LET k == FirstFit(PagesOf(t))
  IN  /\ HeapAt(t, "p_alloc")
      /\ page_list' = IF k = 0 THEN page_list ELSE Cut(k, PagesOf(t))
      /\ Local(t, "addr", IF k = 0 THEN NoBlock ELSE page_list[k].at * PageSize)
      /\ IF k = 0 THEN UNCHANGED heap_sem ELSE release
      /\ HeapGoto(t, "m_got")
      /\ UNCHANGED <<huse, zone_array, zone_free, zone, memusage, used_mem, live>>

page_alloc(t) ==
  LET k == FirstFit(PagesOf(t))
  IN  /\ HeapAt(t, "p_alloc")
      /\ page_list' = IF k = 0 THEN page_list ELSE Cut(k, PagesOf(t))
      /\ Local(t, "addr", IF k = 0 THEN NoBlock ELSE page_list[k].at * PageSize)
      /\ release
      /\ HeapGoto(t, "m_got")
      /\ UNCHANGED <<huse, zone_array, zone_free, zone, memusage, used_mem, live>>

(* The run of n pages at p joins a run that ends there, and the next one   *)
(* if they now touch, or one that begins where it ends, or goes between.   *)
Freed(p, n) ==
  LET k == SelectInSeq(page_list, LAMBDA x : x.at + x.n = p \/ x.at >= p + n)
      near == page_list[k]
      after == page_list[k + 1]
  IN  IF k = 0 THEN Append(page_list, [at |-> p, n |-> n])
      ELSE IF near.at + near.n = p
           THEN IF k < Len(page_list) /\ p + n = after.at
                THEN RemoveAt(ReplaceAt(page_list, k, [near EXCEPT !.n = @ + n + after.n]), k + 1)
                ELSE ReplaceAt(page_list, k, [near EXCEPT !.n = @ + n])
      ELSE IF near.at = p + n THEN ReplaceAt(page_list, k, [at |-> p, n |-> near.n + n])
      ELSE InsertAt(page_list, k, [at |-> p, n |-> n])

page_free(t) ==
  /\ HeapAt(t, "p_free")
  /\ page_list' = Freed(Page(hloc[t].addr), hloc[t].size)
  /\ release
  /\ HeapGoto(t, "out")
  /\ hloc' = [hloc EXCEPT ![t] = NoCall]
  /\ UNCHANGED <<huse, zone_array, zone_free, zone, memusage, used_mem, live>>

page_free_take(t) ==
  /\ HeapAt(t, "f_page")
  /\ take(t) /\ HeapGoto(t, "p_free")
  /\ UNCHANGED <<huse, page_list, zone_array, zone_free, zone, memusage, used_mem, hloc, live>>
-----------------------------------------------------------------------------
(* kmalloc().                                                              *)

(* Its first part, with old the block krealloc is to free afterwards.      *)
Asks(t, size, old) ==
  /\ take(t)
  /\ IF size >= zone_limit
     THEN /\ HeapGoto(t, "p_alloc")
          /\ hloc' = [hloc EXCEPT ![t] = [NoCall EXCEPT !.size = RoundUp(size, PageSize), !.old = old]]
     ELSE /\ HeapGoto(t, "m_body")
          /\ hloc' = [hloc EXCEPT ![t] = [NoCall EXCEPT !.size = ChunkSize(size), !.old = old,
                                                        !.zi = zoneindex(size)]]
  /\ UNCHANGED <<huse, page_list, zone_array, zone_free, zone, memusage, used_mem, live>>

(* Blocks handed out and asked for, which the use bounds.                  *)
Blocks == Cardinality(live) + Cardinality({t \in huse.users : hloc[t].size # 0 \/ hloc[t].old # NoBlock})

kmalloc(t) == /\ HeapAt(t, "out") /\ t # HeapIdle
              /\ Blocks < huse.blocks /\ heap_sem.value <= MaxHeapSem
              /\ \E size \in huse.sizes : Asks(t, size, NoBlock)

(* The page whose kup says how far it is from the start of its zone.       *)
ZoneOf(addr) == Page(addr) - memusage[Page(addr)].size

(* A chunk of z: one that was never used, or the one freed last.           *)
Fresh(z) == zone[z].uindex + 1 # zone[z].nmax
Chunk(z) == IF Fresh(z) THEN zone[z].base + (zone[z].uindex + 1) * zone[z].size
            ELSE Head(zone[z].freechunk)
Taken(z) == [zone[z] EXCEPT !.nfree = @ - 1,
                            !.uindex = IF Fresh(z) THEN @ + 1 ELSE @,
                            !.freechunk = IF Fresh(z) THEN @ ELSE Tail(@)]

(* Mutant of AllocChunk: an exhausted zone stays in zone_array.            *)
AllocChunk_stay(t) ==
  LET zi == hloc[t].zi
      z  == Head(zone_array[zi])
  IN  /\ zone' = [zone EXCEPT ![z] = Taken(z)]
      /\ HeapReturn(t, Chunk(z))
      /\ UNCHANGED <<zone_array, zone_free>>

AllocChunk(t) ==
  LET zi == hloc[t].zi
      z  == Head(zone_array[zi])
  IN  /\ zone' = [zone EXCEPT ![z] = Taken(z)]
      /\ zone_array' = [zone_array EXCEPT ![zi] = IF zone[z].nfree = 1 THEN Tail(@) ELSE @]
      /\ HeapReturn(t, Chunk(z))
      /\ UNCHANGED zone_free

(* Mutant of NewZone: the chunks are counted without the header.           *)
NewZone_nmax(t, z) ==
  LET zi   == hloc[t].zi
      size == hloc[t].size
      nmax == zone_size \div size
      base == z * PageSize + Offset(size)
      new  == [zi |-> zi, nmax |-> nmax, nfree |-> nmax - 1, uindex |-> 0,
               base |-> base, size |-> size, freechunk |-> <<>>]
  IN  /\ zone' = [y \in DOMAIN zone \cup {z} |-> IF y = z THEN new ELSE zone[y]]
      /\ zone_array' = [zone_array EXCEPT ![zi] = <<z>> \o @]
      /\ HeapReturn(t, base)

(* Zone z begins its life with its first chunk handed out.                 *)
NewZone(t, z) ==
  LET zi   == hloc[t].zi
      size == hloc[t].size
      nmax == (zone_size - Offset(size)) \div size
      base == z * PageSize + Offset(size)
      new  == [zi |-> zi, nmax |-> nmax, nfree |-> nmax - 1, uindex |-> 0,
               base |-> base, size |-> size, freechunk |-> <<>>]
  IN  /\ zone' = [y \in DOMAIN zone \cup {z} |-> IF y = z THEN new ELSE zone[y]]
      /\ zone_array' = [zone_array EXCEPT ![zi] = <<z>> \o @]
      /\ HeapReturn(t, base)

kmalloc_chunk(t) ==
  /\ HeapAt(t, "m_body") /\ zone_array[hloc[t].zi] # <<>>
  /\ AllocChunk(t)
  /\ used_mem' = used_mem + zone[Head(zone_array[hloc[t].zi])].size
  /\ release
  /\ UNCHANGED <<huse, page_list, memusage>>

kmalloc_reuse(t) ==
  /\ HeapAt(t, "m_body") /\ zone_array[hloc[t].zi] = <<>> /\ zone_free # <<>>
  /\ zone_free' = Tail(zone_free)
  /\ NewZone(t, Head(zone_free))
  /\ used_mem' = used_mem + hloc[t].size
  /\ release
  /\ UNCHANGED <<huse, page_list, memusage>>

(* No zone is left: the lock is given up, and page_alloc() takes it.       *)
kmalloc_unlock(t) ==
  /\ HeapAt(t, "m_body") /\ zone_array[hloc[t].zi] = <<>> /\ zone_free = <<>>
  /\ release /\ HeapGoto(t, "m_page")
  /\ UNCHANGED <<huse, page_list, zone_array, zone_free, zone, memusage, used_mem, hloc, live>>

kmalloc_page(t) ==
  /\ HeapAt(t, "m_page")
  /\ take(t) /\ HeapGoto(t, "p_alloc")
  /\ UNCHANGED <<huse, page_list, zone_array, zone_free, zone, memusage, used_mem, hloc, live>>

(* page_alloc() has returned.  Without pages a large request returns at    *)
(* once; a small one leaves by "fail", which releases the lock.            *)
kmalloc_got(t) ==
  /\ HeapAt(t, "m_got") /\ hloc[t].addr # NoBlock
  /\ take(t)
  /\ IF Large(t)
     THEN /\ memusage' = [memusage EXCEPT ![Page(hloc[t].addr)] =
                            [type |-> "LARGE", size |-> hloc[t].size \div PageSize]]
          /\ HeapGoto(t, "m_large")
     ELSE HeapGoto(t, "m_new") /\ UNCHANGED memusage
  /\ UNCHANGED <<huse, page_list, zone_array, zone_free, zone, used_mem, hloc, live>>

kmalloc_fail(t) ==
  /\ HeapAt(t, "m_got") /\ hloc[t].addr = NoBlock
  /\ IF Large(t) THEN UNCHANGED heap_sem ELSE release
  /\ HeapReturn(t, NoBlock)
  /\ UNCHANGED <<huse, page_list, zone_array, zone_free, zone, memusage, used_mem>>

kmalloc_large(t) ==
  /\ HeapAt(t, "m_large")
  /\ used_mem' = used_mem + hloc[t].size
  /\ HeapReturn(t, hloc[t].addr)
  /\ release
  /\ UNCHANGED <<huse, page_list, zone_array, zone_free, zone, memusage>>

kmalloc_new(t) ==
  LET z == Page(hloc[t].addr)
  IN  /\ HeapAt(t, "m_new")
      /\ memusage' = [p \in DOMAIN memusage |->
                        IF p \in z..(z + ZonePages - 1) THEN [type |-> "SMALL", size |-> p - z]
                        ELSE memusage[p]]
      /\ NewZone(t, z)
      /\ used_mem' = used_mem + hloc[t].size
      /\ release
      /\ UNCHANGED <<huse, page_list, zone_free>>
-----------------------------------------------------------------------------
(* kfree().                                                                *)

(* Its first part: what it does depends on the type of the page.           *)
Frees(t, addr) ==
  /\ take(t)
  /\ HeapGoto(t, IF memusage[Page(addr)].type = "LARGE" THEN "f_large" ELSE "f_small")
  /\ hloc' = [hloc EXCEPT ![t] = [NoCall EXCEPT !.addr = addr]]
  /\ live' = {b \in live : b.at # addr}
  /\ UNCHANGED <<huse, page_list, zone_array, zone_free, zone, memusage, used_mem>>

(* A block is freed once, by anyone, and not while krealloc holds it.      *)
Ready(b) == \A t \in huse.users : hloc[t].old # b.at /\ (hpc[t] = "kfree" => hloc[t].addr # b.at)

kfree(t) == HeapAt(t, "out") /\ \E b \in live : Ready(b) /\ Frees(t, b.at)

kfree_large(t) ==
  LET p == Page(hloc[t].addr)
  IN  /\ HeapAt(t, "f_large")
      /\ Local(t, "size", memusage[p].size)
      /\ memusage' = [memusage EXCEPT ![p].size = 0]
      /\ used_mem' = used_mem - memusage[p].size * PageSize
      /\ release /\ HeapGoto(t, "f_page")
      /\ UNCHANGED <<huse, page_list, zone_array, zone_free, zone, live>>

(* Zone z with the chunk at addr back, and the list that it is then in.    *)
Back(z, addr) == [zone[z] EXCEPT !.nfree = @ + 1, !.freechunk = <<addr>> \o @]
BackIn(z) == IF zone[z].nfree = 0 THEN <<z>> \o zone_array[zone[z].zi]
             ELSE zone_array[zone[z].zi]

(* The zone is wholly free and not the only one of its size.               *)
Spare(z) == zone[z].nfree + 1 = zone[z].nmax /\ Len(BackIn(z)) > 1

Forget(z) == zone' = [y \in DOMAIN zone \ {z} |-> zone[y]]

(* The chunk goes back.  A spare zone goes to zone_free, and on to the     *)
(* pages if that is full.                                                  *)
kfree_small(t) ==
  LET addr == hloc[t].addr
      z    == ZoneOf(addr)
      zi   == zone[z].zi
  IN  /\ HeapAt(t, "f_small")
      /\ used_mem' = used_mem - zone[z].size
      /\ IF ~Spare(z)
         THEN /\ zone' = [zone EXCEPT ![z] = Back(z, addr)]
              /\ zone_array' = [zone_array EXCEPT ![zi] = BackIn(z)]
              /\ HeapGoto(t, "out") /\ hloc' = [hloc EXCEPT ![t] = NoCall]
              /\ UNCHANGED <<zone_free, memusage>>
         ELSE /\ zone_array' = [zone_array EXCEPT ![zi] = Remove(BackIn(z), z)]
              /\ Forget(z)
              /\ IF Len(zone_free) < ReleaseThresh
                 THEN /\ zone_free' = <<z>> \o zone_free
                      /\ HeapGoto(t, "out") /\ hloc' = [hloc EXCEPT ![t] = NoCall]
                      /\ UNCHANGED memusage
                 ELSE /\ memusage' = [p \in DOMAIN memusage |->
                                        IF p \in z..(z + ZonePages - 1)
                                        THEN [type |-> "FREE", size |-> 0] ELSE memusage[p]]
                      /\ HeapGoto(t, "f_page")
                      /\ hloc' = [hloc EXCEPT ![t] = [NoCall EXCEPT !.addr = z * PageSize,
                                                                    !.size = ZonePages]]
                      /\ UNCHANGED zone_free
      /\ release
      /\ UNCHANGED <<huse, page_list, live>>

(* krealloc(): nothing if the block is a chunk of the right size, a free   *)
(* if the new size is zero, otherwise a kmalloc and then the kfree.        *)
krealloc(t) ==
  /\ HeapAt(t, "out") /\ t # HeapIdle
  /\ \E b \in live, size \in huse.sizes :
       LET large == memusage[Page(b.at)].type = "LARGE"
       IN  /\ Ready(b)
           /\ ~large => zone[ZoneOf(b.at)].size # ChunkSize(size)
           /\ Blocks < huse.blocks /\ heap_sem.value <= MaxHeapSem
           /\ Asks(t, IF large THEN size ELSE ChunkSize(size), b.at)

krealloc_free(t) == HeapAt(t, "kfree") /\ Frees(t, hloc[t].addr)

HeapStep(t) == \/ kmalloc(t) \/ kmalloc_chunk(t) \/ kmalloc_reuse(t) \/ kmalloc_unlock(t)
               \/ kmalloc_page(t) \/ kmalloc_got(t) \/ kmalloc_fail(t) \/ kmalloc_large(t)
               \/ kmalloc_new(t) \/ page_alloc(t) \/ page_free(t) \/ page_free_take(t)
               \/ kfree(t) \/ kfree_large(t) \/ kfree_small(t) \/ krealloc(t) \/ krealloc_free(t)

HeapNext == \E t \in huse.users : HeapStep(t)

HeapSpec == HeapInit /\ [][HeapNext]_heapvars
-----------------------------------------------------------------------------
(* The pages a call has taken from a list and not yet put in another.      *)
Run(p, n) == p..(p + n - 1)

Carried(t) ==
  LET p == Page(hloc[t].addr)
  IN  CASE hpc[t] \in {"m_got", "m_new", "m_large"} /\ hloc[t].addr # NoBlock -> Run(p, PagesOf(t))
        [] hpc[t] = "f_large" -> Run(p, memusage[p].size)
        [] hpc[t] \in {"f_page", "p_free"} -> Run(p, hloc[t].size)
        [] OTHER -> {}

Zones == DOMAIN zone \cup ToSet(zone_free)

(* Every set of pages with one owner.                                      *)
Owned == [i \in 1..Len(page_list) |-> Run(page_list[i].at, page_list[i].n)]
         \o SetToSeq({Run(z, ZonePages) : z \in Zones})
         \o SetToSeq({Run(Page(b.at), b.size \div PageSize) : b \in {c \in live : c.zi = -1}})
         \o SetToSeq({Carried(t) : t \in huse.users} \ {{}})

(* No page is lost or has two owners, however calls of several threads     *)
(* interleave where kmalloc and kfree give up the lock, and page_free()    *)
(* joins what touches: free runs are in order and never adjacent.          *)
PagesExact ==
  /\ FoldLeft(LAMBDA n, s : n + Cardinality(s), 0, Owned) = huse.pages - 1
  /\ UNION ToSet(Owned) = 1..(huse.pages - 1)
  /\ \A i \in 1..(Len(page_list) - 1) : page_list[i].at + page_list[i].n < page_list[i + 1].at

(* What kmalloc hands out overlaps no other block and no zone header, and  *)
(* a chunk lies in the zone kfree will find for it by the page's kup.      *)
BlocksApart ==
  \A b \in live :
    /\ \A c \in live : b = c \/ b.at + b.size <= c.at \/ c.at + c.size <= b.at
    /\ b.zi # -1 =>
         LET z == ZoneOf(b.at)
         IN  /\ z \in DOMAIN zone /\ zone[z].size = b.size
             /\ b.at >= z * PageSize + HeaderSize
             /\ b.at + b.size <= (z + ZonePages) * PageSize

(* z_nfree counts exactly the chunks that nobody has, and a zone is in its *)
(* zone_array list, once, exactly when it is not zero: kmalloc never meets *)
(* its assertion z_nfree > 0, nor an empty z_freechunk.                    *)
ZonesExact ==
  /\ \A z \in DOMAIN zone :
       /\ zone[z].nmax - zone[z].nfree =
            Cardinality({b \in live : b.zi # -1 /\ ZoneOf(b.at) = z})
            + Cardinality({t \in huse.users : hpc[t] = "f_small" /\ ZoneOf(hloc[t].addr) = z})
       /\ zone[z].nfree = zone[z].nmax - 1 - zone[z].uindex + Len(zone[z].freechunk)
       /\ Cardinality({i \in 1..Len(zone_array[zone[z].zi]) : zone_array[zone[z].zi][i] = z})
            = IF zone[z].nfree > 0 THEN 1 ELSE 0
  /\ \A zi \in DOMAIN zone_array : ToSet(zone_array[zi]) \subseteq DOMAIN zone

(* used_mem, which memory_info() reports, is what the blocks handed out    *)
(* take, apart from blocks that a kfree has not yet subtracted.            *)
UsedExact ==
  LET freeing == {t \in huse.users : hpc[t] \in {"f_small", "f_large"}}
      Bytes(t) == IF hpc[t] = "f_small" THEN zone[ZoneOf(hloc[t].addr)].size
                  ELSE memusage[Page(hloc[t].addr)].size * PageSize
  IN  used_mem = FoldSet(LAMBDA b, n : n + b.size, 0, live)
                 + FoldSet(LAMBDA t, n : n + Bytes(t), 0, freeing)

(* "lock heap": at most one thread is between a take and a release, and    *)
(* the lock is not lost: when there is none, nobody waits.                 *)
HeapLocked == /\ Cardinality({t \in huse.users : Inside(t)}) <= 1
              /\ (\A t \in huse.users : ~Inside(t)) => heap_sem.value > 0 /\ heap_sem.queue = <<>>

(* Idle::excute() deletes threads, with interrupts disabled, and must not  *)
(* be suspended: it never finds the heap locked, because a thread that     *)
(* holds the lock is ready and idle does not run.                          *)
IdleNeverWaits == HeapIdle \in huse.users => ~Waiting(HeapIdle)

(* zoneindex() rounds every size up, by less than an eighth or 8 bytes,    *)
(* and keeps the sizes of an index equal, also where two bands meet.       *)
ZoneIndexExact ==
  \A n \in {x \in huse.sizes : x < 16384} :
    /\ zoneindex(n) \in 0..71
    /\ ChunkSize(n) >= n
    /\ ChunkSize(n) < n + 8 \/ 8 * (ChunkSize(n) - n) < n
    /\ n + 1 \in huse.sizes /\ n + 1 < 16384 =>
         ((zoneindex(n) = zoneindex(n + 1)) <=> (ChunkSize(n) = ChunkSize(n + 1)))

(* The books of the heap are right whenever a thread looks at them: pages, *)
(* zones and their chunks, used_mem, and the zone each size belongs to.    *)
HeapExact == PagesExact /\ ZonesExact /\ UsedExact /\ ZoneIndexExact
=============================================================================
