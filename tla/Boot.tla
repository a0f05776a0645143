----------------------------------- MODULE Boot -----------------------------------
(***************************************************************************)
(* The boot of the monitor: the harts that enter it (arch/riscv/entry.S),  *)
(* the hart table (boot_harts.c), the boot hart's way through image_main() *)
(* (images/monitor/main.c), the domain table made of the device tree and   *)
(* the start of the domains (domain.c).                                    *)
(*                                                                         *)
(* Until the release of the secondaries the boot hart is alone: its way    *)
(* there is one step for each table it makes. HSM is modelled in Hsm.      *)
(***************************************************************************)
EXTENDS Integers, Sequences, FiniteSets, SequencesExt

CONSTANTS
  BHart,      \* hart ids, natural numbers
  HartCount,  \* CONFIG_PLATFORM_HART_COUNT
  Trees,      \* [cpus, inst]: the device trees to try
  NoSmode,    \* sets of harts without S-mode
  Named       \* boot harts the hand-over block names, -1 for any

ASSUME BootAssumption ==
  BHart \subseteq Nat /\ HartCount \in Nat \ {0} /\ Named \subseteq BHart \cup {-1}

VARIABLES
  tree, nosmode, named,   \* what this boot is about, never changed
  bpc,        \* [BHart -> where it is]
  entered, lottery, release, parked,   \* _boot_hart_count, _boot_lottery, ...
  ids,        \* _boot_hart_ids: a sequence, index 0 first
  present_b,    \* the harts that ran hart_init()
  domains,    \* sequence of [phandle, possible, assigned, boot, next, from]
  hartDomain, \* [hart -> index in domains], for the harts of the table
  bstate,     \* [BHart -> hsm_state]
  starting,   \* domains_start(): the domain it is at
  bstarted,   \* <<domain, hart>>: the starts that succeeded
  here        \* the harts that had entered when wait_for_secondaries() returned
bootVars == <<tree, nosmode, named, bpc, entered, lottery, release, parked, ids, present_b,
              domains, hartDomain, bstate, starting, bstarted, here>>
world == <<tree, nosmode, named>>
tables == <<ids, domains, hartDomain>>

None == -1
Default == 100   \* no "boot-hart" property
BootInit ==
  /\ tree \in Trees /\ nosmode \in NoSmode /\ named \in Named
  /\ bpc = [h \in BHart |-> "reset"]
  /\ entered = 0 /\ lottery = 0 /\ release = FALSE /\ parked = 0
  /\ ids = <<>> /\ present_b = {} /\ domains = <<>> /\ hartDomain = <<>>
  /\ bstate = [h \in BHart |-> "STOPPED"] /\ starting = 0 /\ bstarted = {} /\ here = {}

-----------------------------------------------------------------------------
(* entry.S                                                                 *)

Enter(h) ==
  /\ bpc[h] = "reset" /\ bpc' = [bpc EXCEPT ![h] = "counted"] /\ entered' = entered + 1
  /\ UNCHANGED <<world, lottery, release, parked, tables, present_b, bstate, starting, bstarted, here>>
\* not everybody has a ticket when the previous stage names the winner
Draw(h) ==
  /\ bpc[h] = "counted"
  /\ IF named \notin {None, h} THEN bpc' = [bpc EXCEPT ![h] = "spin"] /\ UNCHANGED lottery
     ELSE /\ lottery' = 1
          /\ bpc' = [bpc EXCEPT ![h] = IF lottery = 0 THEN "boot" ELSE "spin"]
  /\ UNCHANGED <<world, entered, release, parked, tables, present_b, bstate, starting, bstarted, here>>

\* the boot hart has filled the table; image_secondary_main(), or parked
InTable(h) == \E i \in DOMAIN ids : ids[i] = h
Released(h) ==
  /\ bpc[h] = "spin" /\ release
  /\ IF InTable(h)
     THEN /\ present_b' = present_b \cup {h} /\ bstate' = [bstate EXCEPT ![h] = "STOPPED"]
          /\ bpc' = [bpc EXCEPT ![h] = "waiting"] /\ UNCHANGED parked
     ELSE /\ parked' = parked + 1 /\ bpc' = [bpc EXCEPT ![h] = "parked"]
          /\ UNCHANGED <<present_b, bstate>>
  /\ UNCHANGED <<world, entered, lottery, release, tables, starting, bstarted, here>>

-----------------------------------------------------------------------------
(* boot_harts.c, domain.c: the tables                                      *)

\* add_hart(), boot_harts_init(): the boot hart first, then the enabled cpus of the
\* tree, as many as there is room for; a tree without any has nothing to go by
AddHart(table, h) == IF Len(table) < HartCount /\ h \notin Range(table) THEN Append(table, h)
                     ELSE table
TreeCpus == IF tree.cpus = <<>> THEN [i \in 1 .. HartCount |-> i - 1]
        ELSE LET enabled == SelectSeq(tree.cpus, LAMBDA c : c.enabled)
             IN  [i \in DOMAIN enabled |-> enabled[i].id]
HartTable(b) == FoldLeft(AddHart, <<>>, <<b>> \o TreeCpus)

\* root_domain_init(): index 1 of the sequence is domain 0
Root(b, table) == [phandle |-> 0, possible |-> Range(table), assigned |-> Range(table),
                   boot |-> b, next |-> TRUE, from |-> {}]
\* instance_parse(); a "boot-hart" that is not in the table is none
Instance(b, table, n) ==
  [phandle |-> n.phandle, possible |-> n.possible \cap Range(table), assigned |-> {},
   boot |-> IF n.boot = Default THEN b
            ELSE IF n.boot \in Range(table) THEN n.boot ELSE None,
   next |-> n.next, from |-> {}]
Good(insts) == SelectSeq(insts, LAMBDA n : n.ok)
Parsed(b, table) ==
  <<Root(b, table)>> \o [i \in DOMAIN Good(tree.inst) |-> Instance(b, table, Good(tree.inst)[i])]

\* domains_init(): who may enter whom, once every domain has its index
EntryLists(ds) ==
  [i \in DOMAIN ds |->
     [ds[i] EXCEPT !.from = {d \in 2 .. Len(ds) :
         \E n \in Range(tree.inst) : n.phandle = ds[i].phandle /\ ds[d].phandle \in n.from}]]

\* assign_harts(): the domain a hart of the table leaves the root domain for, if it
\* is a possible one of its
DomainOf(ds, h) ==
  LET Owner(c) == {d \in 2 .. Len(ds) : c.dom = ds[d].phandle}
      Latest(S) == CHOOSE d \in S : \A e \in S : e <= d
      to == {Latest(Owner(c)) : c \in {c \in Range(tree.cpus) : c.id = h /\ Owner(c) # {}}}
      ok == {d \in to : h \in ds[d].possible}
  IN  IF ok = {} THEN 1 ELSE CHOOSE d \in ok : TRUE
Assigned(ds, d) == {h \in ds[1].possible : DomainOf(ds, h) = d}
AssignHarts(ds) == [d \in DOMAIN ds |-> [ds[d] EXCEPT !.assigned = Assigned(ds, d)]]

\* image_main() up to plat_init(): the next stage is the boot hart's domain's
BootTables(h) ==
  /\ bpc[h] = "boot" /\ bpc' = [bpc EXCEPT ![h] = "made"]
  /\ present_b' = {h} /\ ids' = HartTable(h)
  /\ \E table \in {HartTable(h)} : \E parse \in {Parsed(h, table)} :
     \E ds \in {AssignHarts(EntryLists(parse))} :
         /\ domains' = [ds EXCEPT ![DomainOf(ds, h)].next = TRUE]
         /\ hartDomain' = [i \in Range(table) |-> DomainOf(ds, i)]
  /\ UNCHANGED <<world, entered, lottery, release, parked, bstate, starting, bstarted, here>>

\* boot_release_secondaries()
Release(h) ==
  /\ bpc[h] = "made" /\ bpc' = [bpc EXCEPT ![h] = "wait"] /\ release' = TRUE
  /\ UNCHANGED <<world, entered, lottery, parked, tables, present_b, bstate, starting, bstarted, here>>

-----------------------------------------------------------------------------
(* domains_start()                                                         *)

IsValid(h) == h \in present_b /\ h \notin nosmode     \* hart_index_valid()
KnownNoSmode(h) == h \in present_b /\ h \in nosmode   \* hart->no_smode, 0 before hart_init()
FirstValid(d) ==
  LET own == {i \in DOMAIN ids : ids[i] \in d.assigned /\ IsValid(ids[i])}
  IN  IF own = {} THEN None ELSE ids[CHOOSE i \in own : \A j \in own : i <= j]
\* a boot hart without S-mode cannot boot anything: the first with one does it
BootHartOf(d) == IF d.boot # None /\ KnownNoSmode(d.boot) THEN FirstValid(d) ELSE d.boot

\* A bug to tell apart: the harts that are not in the table are waited for too.
AllPresent == Cardinality(present_b) >= entered
\* A bug to tell apart: the boot hart does not wait for the others.
AllHere == TRUE
\* wait_for_secondaries(): every hart that entered the image
SecondariesHere == Cardinality(present_b) + parked >= entered
WaitForSecondaries(h) ==
  /\ bpc[h] = "wait" /\ SecondariesHere
  /\ bpc' = [bpc EXCEPT ![h] = "start"] /\ starting' = 1 /\ here' = {i \in BHart : bpc[i] # "reset"}
  /\ domains' = [d \in DOMAIN domains |-> [domains[d] EXCEPT !.boot = BootHartOf(domains[d])]]
  /\ UNCHANGED <<world, entered, lottery, release, parked, ids, hartDomain, present_b, bstate,
                 bstarted>>

\* domain_running(), domain_start(), hsm_hart_boot(); the entry is in its regions
DomainRunning(d) == \E h \in d.assigned : IsValid(h) /\ bstate[h] # "STOPPED"
Starts(d) == d.boot # None /\ d.boot \in d.assigned /\ d.next /\ ~DomainRunning(d)
             /\ IsValid(d.boot) /\ bstate[d.boot] = "STOPPED"
Mine(h) == hartDomain[h]
StartNext(h) ==
  /\ bpc[h] = "start" /\ starting <= Len(domains) /\ starting' = starting + 1
  /\ LET d == domains[starting]
     IN  IF ~(starting = Mine(h) /\ d.boot = h) /\ Starts(d)
         THEN /\ bstate' = [bstate EXCEPT ![d.boot] = "START_PENDING"]
              /\ bstarted' = bstarted \cup {<<starting, d.boot>>}
         ELSE UNCHANGED <<bstate, bstarted>>
  /\ UNCHANGED <<world, bpc, entered, lottery, release, parked, tables, present_b, here>>
\* its own domain last: hsm_boot_hart_start(), or it waits to be started
StartOwn(h) ==
  /\ bpc[h] = "start" /\ starting > Len(domains)
  /\ IF domains[Mine(h)].boot = h
     THEN /\ bpc' = [bpc EXCEPT ![h] = "smode"] /\ bstate' = [bstate EXCEPT ![h] = "STARTED"]
          /\ bstarted' = bstarted \cup {<<Mine(h), h>>}
     ELSE bpc' = [bpc EXCEPT ![h] = "waiting"] /\ UNCHANGED <<bstate, bstarted>>
  /\ UNCHANGED <<world, entered, lottery, release, parked, tables, present_b, starting, here>>

\* hsm_hart_wait()
WaitsAndStarts(h) ==
  /\ bpc[h] = "waiting" /\ bstate[h] = "START_PENDING"
  /\ bpc' = [bpc EXCEPT ![h] = "smode"] /\ bstate' = [bstate EXCEPT ![h] = "STARTED"]
  /\ UNCHANGED <<world, entered, lottery, release, parked, tables, present_b, starting, bstarted, here>>

BootStep(h) == Draw(h) \/ Released(h) \/ BootTables(h) \/ Release(h) \/ WaitForSecondaries(h)
               \/ StartNext(h) \/ StartOwn(h) \/ WaitsAndStarts(h)
BootNext == \E h \in BHart : Enter(h) \/ BootStep(h)

\* A hart that is in the monitor executes it; whether and when one enters is the
\* platform's business, except that the named boot hart comes.
BootFairness ==
  /\ \A h \in BHart : WF_bootVars(BootStep(h))
  /\ \A h \in BHart : WF_bootVars(named = h /\ Enter(h))
BootSpec == BootInit /\ [][BootNext]_bootVars /\ BootFairness

-----------------------------------------------------------------------------
Done == \E h \in BHart : h \in present_b /\ ids[1] = h /\ bpc[h] \in {"smode", "waiting"}

\* domains_start() starts a domain once, on a hart with S-mode that is the domain's
\* and no other's; no domain and no hart is started twice.
StartsAreTheDomains ==
  \A s \in bstarted :
    /\ s[2] \notin nosmode /\ s[2] \in domains[s[1]].assigned
    /\ \A d \in DOMAIN domains : s[2] \in domains[d].assigned => d = s[1]
    /\ \A t \in bstarted : t[1] = s[1] \/ t[2] = s[2] => t = s

\* the boot hart of the tree's node, or of the monitor
AskedBoot(d) ==
  IF domains[d].phandle = 0 THEN ids[1]
  ELSE LET n == CHOOSE n \in Range(tree.inst) : n.phandle = domains[d].phandle
       IN  IF n.boot = Default THEN ids[1] ELSE n.boot
Able(d) == {h \in domains[d].assigned : h \notin nosmode}
\* Once domains_start() is done, and no hart came late, every domain with an entry and
\* a hart with S-mode to boot on has been started: its boot hart if that is its own,
\* another one of its harts in place of a boot hart that has no S-mode.
EveryDomainBoots ==
  Done /\ Range(ids) \subseteq here =>
    \A d \in DOMAIN domains :
      (/\ domains[d].next /\ Able(d) # {} /\ AskedBoot(d) \in present_b
       /\ AskedBoot(d) \in Able(d) \cup nosmode)
      => \E s \in bstarted : s[1] = d

\* domain_may_enter() follows the tree: the domain of a node can be entered from those
\* its list names, though nodes in between were ignored.
MayEnter(from, to) == from \in domains[to].from
EntriesFollowTree ==
  \A d, e \in 2 .. Len(domains) :
    MayEnter(d, e) <=> \E n \in Range(tree.inst) :
                         n.phandle = domains[e].phandle /\ domains[d].phandle \in n.from

\* The domains are started, and may be entered, as the device tree says, whichever of
\* its nodes and harts were left out on the way.
TreeIsFollowed == StartsAreTheDomains /\ EveryDomainBoots /\ EntriesFollowTree

\* The boot gets to its end: whatever enters, and whether or not it is in the table.
BootEnds == (entered > 0 /\ named = None) \/ named # None ~> Done
=============================================================================
