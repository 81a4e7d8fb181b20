----------------------------- MODULE AddrSpace -----------------------------
(***************************************************************************)
(* Address spaces and the memory behind them: src/mm/vmm.c with its page   *)
(* tables, kmalloc and malloc of src/heap/heap.c and elf_exec of           *)
(* src/exec/elf/elf.c, driven by the scheduler (module Sched), and the     *)
(* second CPU, which src/arch/x86_64/smp/smp.c starts and never waits for. *)
(*                                                                         *)
(* Addresses are page numbers.  A page map is named by the task that owns  *)
(* it, NULL being page_map_kernel.  The upper half, which is the kernel's  *)
(* in every map and complete after vmm_init, is left out, with the kernel's *)
(* image.  When memory runs out the model stops allocating; module Pmm     *)
(* shows what the code does then.                                          *)
(*                                                                         *)
(* Definitions named X_... are mistaken variants of the definition X that  *)
(* follows them; no action uses them.                                      *)
(***************************************************************************)
EXTENDS Integers, Sequences

CONSTANTS MaxCreated, SCHED_MAX_TASK, NULL,
          Pages,     \* bound: how many pages of memory there are
          LEVELS,    \* 4: of tables
          ENTRIES,   \* of a table, 256 in the lower half of the top one and 512 below
          BLOCK,     \* 4096: pages of a heap block
          Base,      \* 1 MB, where programs are linked to, below the end of vmm_init's tables
          Programs,  \* the sizes of the segments of each; << >> has a bad header
          Shell,     \* the program created at boot
          CPUS       \* cpu_count of limine's answer

VARIABLES sched_list, sched_current_task, sched_tid, sched_cid, task_id,
          task_state, task_regs, cpu, vmm_current_page_map, created, tasking, halted
VARIABLES
    mem,        \* what each page was allocated as, for whom, and where its
                \* allocation starts, where pmm_alloc goes on searching, what
                \* the tables hold, how far vmm_init's loop is, and whether
                \* memory has run out
    page_map,   \* the top table of each owner's map
    linked,     \* history: which pages elf_exec mapped for a task, and where
    cr3,        \* the owner of the page map CPU 0 has loaded
    ap_pending  \* CPU 1 was released and has not run page_map_load yet

S == INSTANCE Sched

schedVars == << sched_list, sched_current_task, sched_tid, sched_cid, task_id,
                task_state, task_regs, cpu, vmm_current_page_map, created,
                tasking, halted >>
memVars == << mem, page_map, linked, cr3, ap_pending >>
vars == << schedVars, memVars >>

Task == S!Task
Owner == Task \cup {NULL}
Page == 0..(Pages - 1)
Entry == 0..(ENTRIES - 1)
Kind == {"free", "struct", "map", "segment", "table", "stack", "kheap", "heap"}
Free == [as |-> "free", of |-> NULL, at |-> 0, usable |-> FALSE]

(* An address, shifted down by the bits of that many levels of tables. *)
Shift(vaddr, level) ==
    LET shift[k \in 0..LEVELS] == IF k = 0 THEN vaddr ELSE shift[k - 1] \div ENTRIES
    IN shift[level]

(* The tables reach all of memory. *)
ASSUME AddrSpaceAssumption == /\ Pages \in Nat \ {0} /\ NULL \notin Page
                              /\ LEVELS \in Nat \ {0} /\ ENTRIES \in Nat \ {0}
                              /\ Shift(Pages - 1, LEVELS) = 0
                              /\ BLOCK \in Nat \ {0} /\ Base \in Nat
                              /\ \A s \in Programs \cup {Shell} : s \in Seq(Nat \ {0})
                              /\ CPUS \in {1, 2}
                              /\ S!SchedAssumption

-----------------------------------------------------------------------------
(* The allocator is module Pmm's: next fit.                                *)
Fits(m, n) == {p \in Page : /\ p >= m.pmm_bitmap_index /\ p + n <= Pages
                            /\ \A q \in p..(p + n - 1) : m.use[q] = Free}
Next_(m, n) == CHOOSE p \in Fits(m, n) : \A q \in Fits(m, n) : p <= q
pmm_alloc(m, n, kind, t) ==
    IF Fits(m, n) = {} THEN [m EXCEPT !.full = TRUE]
    ELSE LET first == Next_(m, n)
             part == [as |-> kind, of |-> t, at |-> first, usable |-> FALSE]
         IN [m EXCEPT !.use = [p \in Page |-> IF p \in first..(first + n - 1) THEN part ELSE @[p]],
                      !.pmm_bitmap_index = first + n]

-----------------------------------------------------------------------------
(* Page tables.  Memory that nobody wrote holds anything: here entries     *)
(* that are present and lead to page 0.                                    *)
Zero == [i \in Entry |-> NULL]
Junk == [i \in Entry |-> 0]
Held(m, p) == IF p \in DOMAIN m.table THEN m.table[p] ELSE Junk
Write(m, p, content) == [m EXCEPT !.table = [q \in (DOMAIN @) \cup {p} |-> IF q = p THEN content ELSE @[q]]]
Store(m, p, i, value) == Write(m, p, [Held(m, p) EXCEPT ![i] = value])

(* One table of t's map down, which is allocated where there is none.      *)
page_map_walk_entry_NotZeroed(w, i, t) ==
    IF w.mem.full \/ Held(w.mem, w.directory)[i] # NULL
    THEN [w EXCEPT !.directory = Held(w.mem, w.directory)[i]]
    ELSE LET m == pmm_alloc(w.mem, 1, "table", t)
             pml == Next_(w.mem, 1)
         IN IF m.full THEN [w EXCEPT !.mem = m]
            ELSE [mem |-> Store(m, w.directory, i, pml), directory |-> pml]
page_map_walk_entry(w, i, t) ==
    IF w.mem.full \/ Held(w.mem, w.directory)[i] # NULL
    THEN [w EXCEPT !.directory = Held(w.mem, w.directory)[i]]
    ELSE LET m == pmm_alloc(w.mem, 1, "table", t)
             pml == Next_(w.mem, 1)
         IN IF m.full THEN [w EXCEPT !.mem = m]
            ELSE [mem |-> Store(Write(m, pml, Zero), w.directory, i, pml), directory |-> pml]

(* The entry for vaddr in a table of that level, 0 being pml1.             *)
Index(vaddr, level) == Shift(vaddr, level) % ENTRIES

vmm_map(m, map, paddr, vaddr, t) ==
    LET walk[n \in 0..(LEVELS - 1)] ==
            IF n = 0 THEN [mem |-> m, directory |-> map]
            ELSE page_map_walk_entry(walk[n - 1], Index(vaddr, LEVELS - n), t)
        pml1 == walk[LEVELS - 1]
    IN IF pml1.mem.full THEN pml1.mem
       ELSE Store(pml1.mem, pml1.directory, Index(vaddr, 0), paddr)

(* What the CPU finds through a map, or NULL: a page fault.                *)
Translation(m, map, vaddr) ==
    LET path[n \in 0..LEVELS] ==
            IF n = 0 THEN map
            ELSE IF path[n - 1] = NULL THEN NULL
            ELSE Held(m, path[n - 1])[Index(vaddr, LEVELS - n)]
    IN path[LEVELS]

(* pmm_alloc of several pages, and a map of each to itself. *)
MapPage(m, map, page, t) == IF m.full THEN m ELSE vmm_map(m, map, page, page, t)
MapPages(m, map, addr, n, t) ==
    LET maps[i \in 0..n] ==
            IF i = 0 THEN m ELSE MapPage(maps[i - 1], map, addr + i - 1, t)
    IN maps[n]
vmm_alloc_FirstPage(m, map, n, kind, t, owner) ==
    LET m1 == pmm_alloc(m, n, kind, t)
    IN IF m1.full THEN m1 ELSE MapPages(m1, map, Next_(m, n), 1, owner)
vmm_alloc(m, map, n, kind, t, owner) ==
    LET m1 == pmm_alloc(m, n, kind, t)
    IN IF m1.full THEN m1 ELSE MapPages(m1, map, Next_(m, n), n, owner)

(* page_map_new copies the upper half of the kernel's map, and nothing of  *)
(* the lower.                                                              *)
page_map_new(m, t) ==
    LET m1 == pmm_alloc(m, 1, "map", t)
    IN IF m1.full THEN m1 ELSE Write(m1, Next_(m, 1), Zero)

(* smp_init_all has released CPU 1 before the first task is created. *)
Init == /\ S!Init
        /\ LET boot == [use |-> [p \in Page |-> Free], pmm_bitmap_index |-> 0, table |-> << >>,
                        mapped |-> 0, full |-> FALSE]
           IN mem = Write(pmm_alloc(boot, 1, "map", NULL), 0, Zero)
        /\ page_map = [o \in Owner |-> IF o = NULL THEN 0 ELSE NULL]
        /\ linked = [t \in Task |-> {}]
        /\ cr3 = NULL
        /\ ap_pending = (CPUS > 1)

(* The loop of vmm_init maps all of memory to itself, before anything that *)
(* follows in _start.                                                      *)
vmm_init == /\ mem.mapped < Pages
            /\ mem' = [vmm_map(mem, page_map[NULL], mem.mapped, mem.mapped, NULL) EXCEPT !.mapped = @ + 1]
            /\ ~mem'.full
            /\ UNCHANGED << schedVars, page_map, linked, cr3, ap_pending >>
Initialised == mem.mapped = Pages

-----------------------------------------------------------------------------
(* elf_exec: every segment is allocated as a whole and mapped by one call  *)
(* of vmm_map, which maps its first page.                                  *)
LoadSegment_SameHeader(elf, map, size, t) ==
    LET m1 == pmm_alloc(elf.mem, size, "segment", t)
        seg == Next_(elf.mem, size)
    IN IF elf.mem.full \/ m1.full THEN [elf EXCEPT !.mem.full = TRUE]
       ELSE [mem |-> vmm_map(m1, map, seg, elf.vaddr, t),
             vaddr |-> elf.vaddr,
             linked |-> elf.linked \cup {[vaddr |-> elf.vaddr, page |-> seg]}]
LoadSegment(elf, map, size, t) ==
    LET m1 == pmm_alloc(elf.mem, size, "segment", t)
        seg == Next_(elf.mem, size)
    IN IF elf.mem.full \/ m1.full THEN [elf EXCEPT !.mem.full = TRUE]
       ELSE [mem |-> vmm_map(m1, map, seg, elf.vaddr, t),
             vaddr |-> elf.vaddr + size,
             linked |-> elf.linked \cup {[vaddr |-> elf.vaddr, page |-> seg]}]
elf_exec(m, map, segments, t) ==
    LET elf[i \in 0..Len(segments)] ==
            IF i = 0 THEN [mem |-> m, vaddr |-> Base, linked |-> {}]
            ELSE LoadSegment(elf[i - 1], map, segments[i], t)
    IN elf[Len(segments)]

(* sched_create_new_task: struct, page map, program and stack, for a       *)
(* function of the kernel without the program.                             *)
sched_create_new_task(t, segments) ==
    LET m1 == vmm_alloc(mem, page_map[NULL], BLOCK, "struct", t, NULL)
        m2 == page_map_new(m1, t)
        map == Next_(m1, 1)
        elf == elf_exec(m2, map, segments, t)
    IN /\ ~m1.full /\ ~m2.full /\ ~elf.mem.full
       /\ mem' = pmm_alloc(elf.mem, 1, "stack", t)
       /\ ~mem'.full
       /\ page_map' = [page_map EXCEPT ![t] = map]
       /\ linked' = [linked EXCEPT ![t] = elf.linked]

BootCreate ==
    /\ Initialised
    /\ S!BootCreate
    /\ IF created = 0 THEN sched_create_new_task(1, << >>) ELSE sched_create_new_task(2, Shell)
    /\ UNCHANGED << cr3, ap_pending >>

SysCreate == /\ S!SysCreate
             /\ \E segments \in Programs : sched_create_new_task(created + 1, segments)
             /\ UNCHANGED << cr3, ap_pending >>

-----------------------------------------------------------------------------
page_map_load_LazyIdle(o) == cr3' = IF o = S!Idle THEN cr3 ELSE o
page_map_load(o) == cr3' = o

(* Sets the block that starts at b, with its header, usable; nothing goes  *)
(* back to pmm.                                                            *)
SetUsable(m, b) ==
    [m EXCEPT !.use = [p \in Page |-> IF @[p] # Free /\ @[p].at = b THEN [@[p] EXCEPT !.usable = TRUE]
                                      ELSE @[p]]]
StructOf(t) == CHOOSE p \in Page : mem.use[p].as = "struct" /\ mem.use[p].of = t

(* The top table goes back to pmm, whose search goes on there; the tables  *)
(* below it and the pages they map do not.                                 *)
page_map_delete_KeepsPage(m, map) == Write(m, map, Zero)
page_map_delete(m, map) ==
    [Write(m, map, Zero) EXCEPT !.use[map] = Free, !.pmm_bitmap_index = map]

(* What sched_remove_task of t does to memory.  That t's map is not the    *)
(* one to unload first (vmm.c:112) follows from Sched!RemovedOnlyDead: the *)
(* same interrupt has just loaded another task's.  The kfree of the stack  *)
(* finds the length to zero before the stack, where it is taken to be 0.   *)
Removed == {t \in Task : S!Listed(t) /\ ~S!Listed(t)'}

sched_switch ==
    /\ S!sched_switch
    /\ page_map_load(vmm_current_page_map')
    /\ \/ Removed = {} /\ UNCHANGED mem
       \/ \E t \in Removed : mem' = SetUsable(page_map_delete(mem, page_map[t]), StructOf(t))
    /\ UNCHANGED << page_map, linked, ap_pending >>

(* kmalloc maps its block in page_map_kernel, where vmm_init mapped it     *)
(* already; every map reaches it through the upper half.                   *)
kmalloc == /\ S!LiveTaskRuns
           /\ mem' = vmm_alloc(mem, page_map[NULL], BLOCK, "kheap", cpu, NULL)
           /\ ~mem'.full
           /\ UNCHANGED << schedVars, page_map, linked, cr3, ap_pending >>

(* kfree and free, of what the same task took. *)
kfree(b) == /\ S!LiveTaskRuns
            /\ mem.use[b].as \in {"kheap", "heap"} /\ mem.use[b].of = cpu /\ mem.use[b].at = b
            /\ ~mem.use[b].usable
            /\ mem' = SetUsable(mem, b)
            /\ UNCHANGED << schedVars, page_map, linked, cr3, ap_pending >>

(* malloc maps its block in vmm_current_page_map and then writes the       *)
(* block's header through the map in cr3.  If that finds no page it faults, *)
(* inside a system call.                                                   *)
malloc == vmm_alloc(mem, page_map[vmm_current_page_map], BLOCK, "heap", cpu, vmm_current_page_map)
HeaderMapped == Translation(mem', page_map[cr3], Next_(mem, BLOCK)) # NULL

MallocReturns == /\ S!LiveTaskRuns
                 /\ mem' = malloc /\ ~mem'.full
                 /\ HeaderMapped
                 /\ UNCHANGED << schedVars, page_map, linked, cr3, ap_pending >>

MallocFaults == /\ S!FaultInSyscall
                /\ mem' = malloc /\ ~mem'.full
                /\ ~HeaderMapped
                /\ UNCHANGED << page_map, linked, cr3, ap_pending >>

(* smp_init_core: CPU 1 loads page_map_kernel for itself, and page_map_load *)
(* also stores it in the variable both CPUs share.                         *)
smp_init_core ==
    /\ Initialised /\ ap_pending
    /\ ap_pending' = FALSE
    /\ vmm_current_page_map' = NULL
    /\ UNCHANGED << sched_list, sched_current_task, sched_tid, sched_cid, task_id,
                    task_state, task_regs, cpu, created, tasking, halted,
                    mem, page_map, linked, cr3 >>

SchedOnly == /\ S!pit_init \/ S!Kill \/ S!IsrHalt \/ S!FaultInSyscall
             /\ UNCHANGED memVars

Next == \/ vmm_init \/ BootCreate \/ SysCreate \/ sched_switch
        \/ kmalloc \/ \E b \in Page : kfree(b)
        \/ MallocReturns \/ MallocFaults
        \/ smp_init_core \/ SchedOnly

Spec == Init /\ [][Next]_vars

-----------------------------------------------------------------------------
(* Type correctness of the memory behind the scheduler's variables. *)
TypeOK ==
    /\ mem.use \in [Page -> [as : Kind, of : Owner, at : Page, usable : BOOLEAN]]
    /\ mem.pmm_bitmap_index \in 0..Pages
    /\ DOMAIN mem.table \subseteq Page
    /\ \A p \in DOMAIN mem.table : mem.table[p] \in [Entry -> Page \cup {NULL}]
    /\ mem.mapped \in 0..Pages
    /\ mem.full = FALSE
    /\ page_map \in [Owner -> Page \cup {NULL}]
    /\ cr3 \in Owner
    /\ ap_pending \in BOOLEAN

(* The page map CPU 0 translates through was not freed: page_map_delete    *)
(* (vmm.c:111-119) never takes the map that is loaded, although it asks    *)
(* vmm_current_page_map, which CPU 1 may have overwritten, and not cr3.    *)
IsMapOf(p, t) == mem.use[p].as = "map" /\ mem.use[p].of = t
LoadedAlive == IsMapOf(page_map[cr3], cr3)

(* What a task reaches through its lower half are its own segments and its *)
(* own heap, through tables of its own: never another task's pages, freed  *)
(* ones, the kernel's, or page tables.                                     *)
Reached(S_) == UNION {{Held(mem, d)[i] : i \in Entry} \ {NULL} : d \in S_}
MappedOwned ==
    \A t \in Task : S!Listed(t) =>
        LET below[n \in 0..LEVELS] == IF n = 0 THEN {page_map[t]} ELSE Reached(below[n - 1])
        IN \A n \in 1..LEVELS : \A p \in below[n] :
               /\ mem.use[p].of = t
               /\ mem.use[p].as \in IF n < LEVELS THEN {"table"} ELSE {"segment", "heap"}

(* A task in the table has one page for its page map; a removed task has   *)
(* none: page maps are neither leaked nor freed twice.                     *)
OneMapEach ==
    \A t \in Task :
        {p \in Page : IsMapOf(p, t)} = IF S!Listed(t) THEN {page_map[t]} ELSE {}

(* A program stays where it was linked to for as long as its task is in    *)
(* the table: no later mapping of its own or of another task, and no       *)
(* removal, takes a segment's first page away or puts another in its place. *)
ProgramStays ==
    \A t \in Task : S!Listed(t) =>
        \A s \in linked[t] : Translation(mem, page_map[t], s.vaddr) = s.page

(* heap.c:27-32, "USER ALLOCATIONS": what malloc takes for a task is in    *)
(* that task's address space.                                              *)
MallocInSpace ==
    \A p \in Page :
        LET u == mem.use[p]
        IN u.as = "heap" /\ S!Listed(u.of) => Translation(mem, page_map[u.of], p) = p

(* Whatever malloc returned to a task is in that task's address space,     *)
(* when CPU 1 overwrites vmm_current_page_map too: malloc then faults      *)
(* before it returns (heap.c:36-37).                                       *)
MallocMapped == halted \/ MallocInSpace

(* heap.c:23, "Sets block as usable": while some block is usable, there is *)
(* room for another one.                                                   *)
UsableIsRoom == (\E p \in Page : mem.use[p].usable) => Fits(mem, BLOCK) # {}

(* elf.c:26-32: a segment that takes several pages is there as a whole.    *)
SegmentsWhole ==
    \A t \in Task : S!Listed(t) =>
        \A s \in linked[t], p \in Page :
            mem.use[p].as = "segment" /\ mem.use[p].at = s.page =>
                Translation(mem, page_map[t], s.vaddr + p - s.page) = p
=============================================================================
