--------------------------- MODULE Neuroplasticity ---------------------------
(***************************************************************************)
(* Genomes: bundles of rows and code that are installed, edited, saved and *)
(* uninstalled while the system runs (neuroplasticity/loader.py, api.py).  *)
(*                                                                         *)
(* A genome is in four places that no transaction spans: the archive       *)
(* genomes/<slug>.zip, the tree grafts/<slug>/, the NeuralModifier row and *)
(* the rows it owns.  An operation is a sequence of steps, each of which   *)
(* changes files or commits one transaction, and the process may die       *)
(* between any two of them.  The next process boots: it compares what it   *)
(* finds and marks BROKEN the genomes that do not add up.                  *)
(*                                                                         *)
(* A manifest stands for its own hash.  One request is served at a time.   *)
(***************************************************************************)
EXTENDS Naturals, FiniteSets

CONSTANTS
  Slugs,        \* the slugs of genomes that live on disk; Incubator is one
  Incubator,    \* the slug of the default workspace
  Canonical,    \* the genome of the core's own rows: it has no slug here
  Genomes,      \* genome UUIDs
  Pks,          \* primary keys of owned rows
  FreshPks,     \* the keys uuid4() may mint
  Table,        \* the table a key is of
  Hard, Loose,  \* which tables have hard keys, or loose ones, to which
  Guards,       \* the rows whose hard keys are PROTECT, the rest CASCADE
  Uploads,      \* the archives an operator may upload, with their slugs
  Core,         \* the rows of the core's fixtures
  Factory,      \* incubator.zip as it is shipped
  MaxRequests, MaxEvents,   \* bounds
  None

ASSUME GenomesAssumption ==
  /\ Incubator \in Slugs /\ FreshPks \subseteq Pks /\ Guards \subseteq Pks
  /\ IsFiniteSet(Pks) /\ Canonical \in Genomes
  /\ {MaxRequests, MaxEvents} \subseteq Nat

(* What tells apart whose name, or whose media file, something is.         *)
Name  == {"shipped", "new", "edited"}
Media == SUBSET {"shipped", "uploaded"}

(* manifest.json; from: the slug a save-as forged it from, or None.        *)
Manifest ==
  [genome : Genomes, version : Nat, name : Name, entry : BOOLEAN,
   from : Slugs \cup {None}, requires : SUBSET [slug : Slugs, atLeast : Nat]]

(* What the entry modules come to when the code is looked at and imported. *)
Code  == {"absent", "bad", "good"}

(* modifier_data.json: the rows a bundle holds, without their owner.       *)
(* refs: hard foreign keys; loose: SET_NULL keys and many-to-many links.   *)
Fields == [refs : SUBSET Pks, loose : SUBSET Pks]
Bundle == [Pks -> Fields \cup {None}]

Holds(bundle) == {p \in Pks : bundle[p] # None}

Archive   == [slug : Slugs, manifest : Manifest, rows : Bundle, code : Code, media : Media]
GraftTree == [manifest : Manifest \cup {None}, code : Code, media : Media]
Modifier  == [genome : Genomes, status : {"INSTALLED", "BROKEN"}, version : Nat,
              hash : Manifest \cup {None}, json : Manifest \cup {None}]
OwnedRow  == [genome : Genomes, refs : SUBSET Pks, loose : SUBSET Pks]

Owned(g, data) == [genome |-> g, refs |-> data.refs, loose |-> data.loose]

ASSUME CoreAssumption ==
  Core \in [DOMAIN Core -> Fields] /\ DOMAIN Core \subseteq Pks \ FreshPks

(* What is uploaded or shipped has been forged elsewhere.                  *)
ASSUME ArchivesAssumption ==
  /\ Uploads \cup {Factory} \subseteq Archive /\ Factory.slug = Incubator
  /\ \A a \in Uploads \cup {Factory} : a.manifest.from = None

ASSUME NoneAssumption ==
  /\ None \notin Slugs /\ None \notin Fields /\ None \notin Manifest /\ None \notin Archive
  /\ None \notin GraftTree /\ None \notin Modifier /\ None \notin OwnedRow

VARIABLES
  zips,     \* slug -> archive in the catalog
  grafts,   \* slug -> tree
  mods,     \* slug -> NeuralModifier row
  rows,     \* pk -> [genome, refs, loose]
  edit,     \* the genomes selected for edit
  path,     \* the grafts whose code is on sys.path of this process
  phase,    \* "up", or how far the boot of this process has come
  op,       \* the request being served
  fresh,    \* nothing has happened since the boot
  crashed,  \* history: a process has died in the middle of a request
  used, events   \* requests so far; edits and restarts so far

files   == <<zips, grafts>>
tables  == <<mods, rows, edit>>
process == <<path, phase, fresh, crashed>>
vars    == <<files, tables, process, op, used, events>>

Idle == [kind |-> "idle"]

(* What a request still has to do, and with what.                          *)
Operation ==
  {Idle}
    \cup [kind : {"unpack", "swap", "commit"}, slug : Slugs, archive : Archive]
    \cup [kind : {"copy", "load"}, slug : Slugs, archive : Archive, existed : BOOLEAN]
    \cup [kind : {"save", "register", "regraft"}, slug : Slugs]
    \cup [kind : {"pack"}, slug : Slugs, manifest : Manifest, rows : Bundle]

Phase == {"graft", "sweep", "load", "mutex", "up"}

Listed    == {s \in Slugs : mods[s] # None}
Installed == {s \in Listed : mods[s].status = "INSTALLED"}
Existing  == {p \in Pks : rows[p] # None}

Own(g) == {p \in Existing : rows[p].genome = g}

(* The rows that go when the rows of S go: Django's collector follows the  *)
(* CASCADE keys.  Blocked: a PROTECT key of a row outside S is in the way. *)
Cascades(T) == \A p \in Existing \ Guards : rows[p].refs \cap T # {} => p \in T

Doomed(S) ==
  LET closed == {T \in SUBSET Existing : S \subseteq T /\ Cascades(T)}
  IN  {p \in Existing : \A T \in closed : p \in T}

Blocked(S) == \E p \in (Guards \cap Existing) \ S : rows[p].refs \cap Doomed(S) # {}

(* A row that stays loses its loose keys to those that go.                 *)
Without(S) ==
  LET doomed == Doomed(S)
  IN  [p \in Pks |-> IF p \in Existing \ doomed
                     THEN [rows[p] EXCEPT !.loose = rows[p].loose \ doomed] ELSE None]

(* The parts of a row: what save() gives to the owner of a pathway, an     *)
(* effector or an executable that changes hands, whoever owned it.         *)
Parts ==
  {<<"Neuron", "NeuralPathway">>, <<"Axon", "NeuralPathway">>,
   <<"EffectorContext", "Effector">>, <<"EffectorArgumentAssignment", "Effector">>,
   <<"ExecutableArgumentAssignment", "Executable">>,
   <<"ExecutableSupplementaryFileOrPath", "Executable">>}

PartsOf(p) == {q \in Existing : p \in rows[q].refs /\ <<Table[q], Table[p]>> \in Parts}

Moved(p) ==
  {p} \cup PartsOf(p) \cup
    {q \in Existing : /\ Table[q] = "NeuronContext"
                      /\ \E n \in rows[q].refs \cap PartsOf(p) : Table[n] = "Neuron"}

(* The tree an archive unpacks to, and the archive without its bulk.       *)
Tree(a) == [manifest |-> a.manifest, code |-> a.code, media |-> a.media]

(* Entry modules: to be found under code/, in an archive, importable.      *)
Missing(m, code)    == m.entry /\ code = "absent"
Verified(m, code)   == m.entry => code # "absent"
Importable(m, code) == m.entry => code = "good"

(* Every genome the manifest requires is installed and new enough.         *)
RequiresMet(m) ==
  \A r \in m.requires : r.slug \in Installed /\ mods[r.slug].version >= r.atLeast

(* The UUID of the manifest belongs to no other slug.                      *)
UuidFree(m, s) ==
  /\ m.genome # Canonical
  /\ \A t \in Listed \ {s} : mods[t].genome # m.genome

(* mutant: a row of the default workspace is nobody's.                     *)
NoCollisionButUser(a, g, table) ==
  \A p \in Holds(a.rows) :
    table[p] # None => table[p].genome \in {g, Factory.manifest.genome}

(* No row of the archive exists already with another owner.                *)
NoCollision(a, g, table) ==
  \A p \in Holds(a.rows) : table[p] # None => table[p].genome = g

(* The rows of the archive, with their owner.                              *)
Stamped(a, g, table) ==
  [p \in Pks |-> IF p \in Holds(a.rows) THEN Owned(g, a.rows[p]) ELSE table[p]]

RefsHold(table) ==
  \A p \in Pks : table[p] # None =>
    \A q \in table[p].refs \cup table[p].loose : table[q] # None

Init ==
  /\ zips = [s \in Slugs |-> IF s = Incubator THEN Factory ELSE None]
  /\ grafts = [s \in Slugs |-> None]
  /\ mods = [s \in Slugs |-> IF s = Incubator
               THEN [genome |-> Factory.manifest.genome, status |-> "INSTALLED",
                     version |-> Factory.manifest.version, hash |-> None, json |-> None]
               ELSE None]
  /\ rows = [p \in Pks |-> IF p \in DOMAIN Core THEN Owned(Canonical, Core[p]) ELSE None]
  /\ edit = {} /\ path = {} /\ phase = "graft" /\ op = Idle
  /\ fresh = FALSE /\ crashed = FALSE /\ used = 0 /\ events = 0

-----------------------------------------------------------------------------
(* The requests. *)

Request ==
  /\ phase = "up" /\ op = Idle /\ used < MaxRequests
  /\ used' = used + 1 /\ fresh' = FALSE
  /\ UNCHANGED <<phase, crashed, events>>

Continue(kind) ==
  op.kind = kind /\ UNCHANGED <<phase, crashed, fresh, used, events>>

(* The genomes the API shows: canonical has no slug here.                  *)
Visible(s) == s \in Listed

(* The archives one can read in genomes/.                                  *)
Catalog == {s \in Slugs : zips[s] # None}

(* install_genome_to_graft: the archive is read into a scratch directory.  *)
Unpack(a) == op' = [kind |-> "unpack", slug |-> a.slug, archive |-> a]

(* An uploaded archive enters the catalog, unless its slug is there.       *)
EnterCatalog(a) ==
  /\ a.slug \notin Catalog
  /\ zips' = [zips EXCEPT ![a.slug] = a]

(* install: an uploaded archive, which stays in the catalog ...            *)
UploadInstall(a) ==
  /\ Request
  /\ EnterCatalog(a)
  /\ Unpack(a)
  /\ UNCHANGED <<grafts, tables, path>>

(* ... or one that is in the catalog.                                      *)
SlugInstall(s) ==
  /\ Request
  /\ s \in Catalog
  /\ Unpack(zips[s])
  /\ UNCHANGED <<files, tables, path>>

(* catalog/<slug>/install: refused while the genome has a row.             *)
CatalogInstall(s) == s \notin Listed /\ SlugInstall(s)

CatalogDelete(s) ==
  /\ Request
  /\ s \in Catalog \ Listed
  /\ zips' = [zips EXCEPT ![s] = None]
  /\ UNCHANGED <<grafts, tables, path, op>>

(* The archive is unpacked and looked at; the row is committed before the  *)
(* tree is there.                                                          *)
InstallBegin ==
  /\ Continue("unpack")
  /\ LET s == op.slug
         m == op.archive.manifest
     IN  IF RequiresMet(m) /\ UuidFree(m, s) /\ grafts[s] = None
         THEN /\ mods' = IF mods[s] # None THEN mods ELSE
                  [mods EXCEPT ![s] = [genome |-> m.genome, status |-> "INSTALLED",
                     version |-> m.version, hash |-> m, json |-> m]]
              /\ op' = [kind |-> "copy", slug |-> s, archive |-> op.archive,
                        existed |-> mods[s] # None]
         ELSE op' = Idle /\ UNCHANGED mods
  /\ UNCHANGED <<files, rows, edit, path>>

InstallCopy ==
  /\ Continue("copy")
  /\ grafts' = [grafts EXCEPT ![op.slug] = Tree(op.archive)]
  /\ path' = path \cup {op.slug}
  /\ op' = [op EXCEPT !.kind = "load"]
  /\ UNCHANGED <<zips, tables>>

(* Import the code, load the rows and bring the row up to date, or undo.   *)
InstallLoad ==
  /\ Continue("load")
  /\ LET s == op.slug
         a == op.archive
         loaded == Stamped(a, mods[s].genome, rows)
     IN  /\ Importable(a.manifest, a.code) /\ NoCollision(a, mods[s].genome, rows)
         /\ RefsHold(loaded)
         /\ rows' = loaded
         /\ mods' = [mods EXCEPT ![s] =
                       [mods[s] EXCEPT !.status = "INSTALLED", !.version = a.manifest.version,
                                       !.hash = a.manifest, !.json = a.manifest]]
  /\ op' = Idle
  /\ UNCHANGED <<files, edit, path>>

(* mutant: the row the install created stays behind.                       *)
InstallFailedKeepingRow ==
  /\ Continue("load")
  /\ LET a == op.archive
         g == mods[op.slug].genome
     IN  ~(Importable(a.manifest, a.code) /\ NoCollision(a, g, rows) /\ RefsHold(Stamped(a, g, rows)))
  /\ path' = path \ {op.slug}
  /\ grafts' = [grafts EXCEPT ![op.slug] = None]
  /\ op' = Idle
  /\ UNCHANGED <<zips, mods, rows, edit>>

InstallFailed ==
  /\ Continue("load")
  /\ LET a == op.archive
         g == mods[op.slug].genome
     IN  ~(Importable(a.manifest, a.code) /\ NoCollision(a, g, rows) /\ RefsHold(Stamped(a, g, rows)))
  /\ path' = path \ {op.slug}
  /\ grafts' = [grafts EXCEPT ![op.slug] = None]
  /\ mods' = IF op.existed THEN mods ELSE [mods EXCEPT ![op.slug] = None]
  /\ op' = Idle
  /\ UNCHANGED <<zips, rows, edit>>

-----------------------------------------------------------------------------
(* uninstall: the row goes with everything it owns, the tree stays for the *)
(* sweep of the next boot.  A PROTECT key from outside stops it.           *)
UninstallGenome(s) ==
  /\ path' = path \ {s}
  /\ IF Blocked(Own(mods[s].genome)) THEN UNCHANGED tables
     ELSE /\ rows' = Without(Own(mods[s].genome))
          /\ mods' = [mods EXCEPT ![s] = None]
          /\ edit' = edit \ {s}
  /\ UNCHANGED <<files, op>>

(* The workspace keeps its row, forgets its manifest and is grafted anew.  *)
ResetIncubator ==
  /\ path' = path \ {Incubator}
  /\ LET own == Own(mods[Incubator].genome)
     IN  IF Blocked(own) THEN UNCHANGED <<rows, mods, op>>
         ELSE /\ rows' = Without(own)
              /\ mods' = [mods EXCEPT ![Incubator] =
                            [mods[Incubator] EXCEPT !.hash = None, !.json = None]]
              /\ op' = [kind |-> "regraft", slug |-> Incubator]
  /\ UNCHANGED <<files, edit>>

Uninstall(s) ==
  /\ Request
  /\ Visible(s)
  /\ IF s = Incubator THEN ResetIncubator ELSE UninstallGenome(s)

(* Everything but media/ is replaced; what a user has put there is kept.   *)
Merged(tree, a) ==
  [Tree(a) EXCEPT !.media = a.media \cup IF tree = None THEN {} ELSE tree.media]

(* graft_incubator, with the tree it finds.                                *)
Graft(tree) ==
  LET a == zips[Incubator]
      stale == tree = None \/ tree.manifest # a.manifest
  IN  /\ grafts' = [grafts EXCEPT ![Incubator] = IF stale THEN Merged(tree, a) ELSE tree]
      /\ mods' = [mods EXCEPT ![Incubator] =
                    [mods[Incubator] EXCEPT !.status = "INSTALLED", !.version = a.manifest.version,
                                            !.hash = a.manifest, !.json = a.manifest]]
      /\ path' = path \cup {Incubator}

Regraft ==
  /\ Continue("regraft")
  /\ Graft(None)
  /\ op' = Idle
  /\ UNCHANGED <<zips, rows, edit>>

-----------------------------------------------------------------------------
(* upgrade: only an archive of the same genome, and a newer one unless the *)
(* caller says otherwise.                                                  *)
Upgrade(s, allowSame) ==
  /\ Request
  /\ s \in Listed \cap Catalog
  /\ LET m == zips[s].manifest
     IN  /\ RequiresMet(m) /\ UuidFree(m, s) /\ m.genome = mods[s].genome
         /\ allowSame \/ m.version > mods[s].version
  /\ op' = [kind |-> "swap", slug |-> s, archive |-> zips[s]]
  /\ UNCHANGED <<files, tables, path>>

(* The rows the new version no longer has.                                 *)
Dropped == Own(mods[op.slug].genome) \ Holds(op.archive.rows)

(* In the transaction, and not committed yet: the tree is replaced.        *)
UpgradeSwap ==
  /\ Continue("swap")
  /\ ~Blocked(Dropped) /\ NoCollision(op.archive, mods[op.slug].genome, Without(Dropped))
  /\ grafts' = [grafts EXCEPT ![op.slug] = Tree(op.archive)]
  /\ path' = path \cup {op.slug}
  /\ op' = [op EXCEPT !.kind = "commit"]
  /\ UNCHANGED <<zips, tables>>

(* Rows are deleted one by one in no order, so that a PROTECT key between  *)
(* two that both go may be in the way as well.                             *)
UpgradeRefused ==
  /\ Continue("swap")
  /\ \/ \E p \in Guards \cap Existing : rows[p].refs \cap Doomed(Dropped) # {}
     \/ ~NoCollision(op.archive, mods[op.slug].genome, Without(Dropped))
  /\ op' = Idle
  /\ UNCHANGED <<files, tables, path>>

Upgraded == Stamped(op.archive, mods[op.slug].genome, Without(Dropped))

UpgradeCommit ==
  /\ Continue("commit")
  /\ LET m == op.archive.manifest
     IN  /\ Importable(m, grafts[op.slug].code) /\ RefsHold(Upgraded)
         /\ rows' = Upgraded
         /\ mods' = [mods EXCEPT ![op.slug] =
                       [mods[op.slug] EXCEPT !.version = m.version, !.hash = m, !.json = m]]
  /\ op' = Idle
  /\ UNCHANGED <<files, edit, path>>

(* The rows are rolled back, the new tree stays.                           *)
UpgradeFailed ==
  /\ Continue("commit")
  /\ ~(Importable(op.archive.manifest, grafts[op.slug].code) /\ RefsHold(Upgraded))
  /\ op' = Idle
  /\ UNCHANGED <<files, tables, path>>

-----------------------------------------------------------------------------
(* save-to-genome: the row first says what the archive will say, then the rows, the  *)
(* code and the media are packed, the archive is looked at, and it takes   *)
(* the place of the old one.                                               *)
Save(s) ==
  /\ Request
  /\ Visible(s)
  /\ op' = [kind |-> "save", slug |-> s]
  /\ UNCHANGED <<files, tables, path>>

CodeOf(s)     == IF grafts[s] = None THEN "absent" ELSE grafts[s].code
MediaOf(s)    == IF grafts[s] = None THEN {} ELSE grafts[s].media
ManifestOf(s) == IF grafts[s] # None /\ grafts[s].manifest # None
                 THEN grafts[s].manifest ELSE mods[s].json

(* The rows of a genome as its bundle has them.                            *)
Packed(own) ==
  [p \in Pks |-> IF p \in own THEN [refs |-> rows[p].refs, loose |-> rows[p].loose] ELSE None]

SaveBegin ==
  /\ Continue("save")
  /\ LET s == op.slug
         m == [ManifestOf(s) EXCEPT !.version = ManifestOf(s).version + 1]
     IN  /\ ~Missing(m, CodeOf(s))
         /\ mods' = [mods EXCEPT ![s] = [mods[s] EXCEPT !.version = m.version, !.json = m]]
         /\ op' = [kind |-> "pack", slug |-> s, manifest |-> m,
                   rows |-> Packed(Own(mods[s].genome))]
  /\ UNCHANGED <<files, rows, edit, path>>

SaveRefused ==
  /\ Continue("save")
  /\ Missing(ManifestOf(op.slug), CodeOf(op.slug))
  /\ op' = Idle
  /\ UNCHANGED <<files, tables, path>>

(* mutant: the packed archive is not looked at before it is put in place.  *)
PackUnverified ==
  /\ Continue("pack")
  /\ zips' = [zips EXCEPT ![op.slug] =
       [slug |-> op.slug, manifest |-> op.manifest, rows |-> op.rows,
        code |-> CodeOf(op.slug), media |-> MediaOf(op.slug)]]
  /\ op' = Idle
  /\ UNCHANGED <<grafts, tables, path>>

Pack ==
  /\ Continue("pack")
  /\ zips' = IF ~Verified(op.manifest, CodeOf(op.slug)) THEN zips ELSE
       [zips EXCEPT ![op.slug] =
         [slug |-> op.slug, manifest |-> op.manifest, rows |-> op.rows,
          code |-> CodeOf(op.slug), media |-> MediaOf(op.slug)]]
  /\ op' = Idle
  /\ UNCHANGED <<grafts, tables, path>>

(* edit-metadata: the name in the manifest of the tree, then a save.       *)
EditGenomeMetadata(s) ==
  /\ s # Incubator
  /\ grafts[s] # None
  /\ grafts[s].manifest # None
  /\ grafts' = [grafts EXCEPT ![s] =
       [grafts[s] EXCEPT !.manifest = [grafts[s].manifest EXCEPT !.name = "edited"]]]
  /\ op' = [kind |-> "save", slug |-> s]

EditMetadata(s) ==
  /\ Request
  /\ Visible(s)
  /\ EditGenomeMetadata(s)
  /\ UNCHANGED <<zips, tables, path>>

UsedGenomes ==
  {Canonical} \cup {a.manifest.genome : a \in Uploads}
    \cup {mods[s].genome : s \in Listed}
    \cup {zips[s].manifest.genome : s \in {t \in Slugs : zips[t] # None}}

(* uuid4(): any one that nothing has yet.                                  *)
Minted == CHOOSE g \in Genomes : g \notin UsedGenomes

UnusedPks ==
  {p \in FreshPks : rows[p] = None /\ \A s \in Slugs : zips[s] # None => p \notin Holds(zips[s].rows)}

NewManifest(g, entry, from) ==
  [genome |-> g, version |-> 0, name |-> "new", entry |-> entry, from |-> from,
   requires |-> {}]

(* create: the tree is written before the row.                             *)
CreateEmptyGenome(s) ==
  /\ s # Incubator /\ s \notin Listed \cup Catalog /\ grafts[s] = None
  /\ grafts' = [grafts EXCEPT ![s] =
       [manifest |-> NewManifest(Minted, FALSE, None), code |-> "absent", media |-> {}]]
  /\ op' = [kind |-> "register", slug |-> s]

CreateEmpty(s) ==
  /\ Request
  /\ Genomes \ UsedGenomes # {}
  /\ CreateEmptyGenome(s)
  /\ UNCHANGED <<zips, tables, path>>

Register ==
  /\ Continue("register")
  /\ LET m == grafts[op.slug].manifest
     IN  mods' = [mods EXCEPT ![op.slug] = [genome |-> m.genome, status |-> "INSTALLED",
                    version |-> m.version, hash |-> m, json |-> m]]
  /\ op' = Idle
  /\ UNCHANGED <<files, rows, edit, path>>

Twin(own, f, p) == rows[CHOOSE q \in own : f[q] = p]

(* mutant: keys inside the bundle still point at the rows of the source.   *)
RemappedKeysOnly(own, f) ==
  [p \in Pks |-> IF p \in {f[q] : q \in own}
                 THEN [refs |-> Twin(own, f, p).refs, loose |-> Twin(own, f, p).loose] ELSE None]

(* The owned rows under new keys f, with the references among them moved   *)
(* along; references that leave the bundle stay.                           *)
Remapped(own, f) ==
  LET Along(keys) == {IF r \in own THEN f[r] ELSE r : r \in keys}
  IN  [p \in Pks |->
        IF p \in {f[q] : q \in own}
        THEN [refs |-> Along(Twin(own, f, p).refs), loose |-> Along(Twin(own, f, p).loose)]
        ELSE None]

(* New keys for rows, in the same tables.                                  *)
Renames(own, f) ==
  \A q \in own : Table[f[q]] = Table[q] /\ \A r \in own : f[q] = f[r] => q = r

Renaming(own) == CHOOSE f \in [own -> UnusedPks] : Renames(own, f)

(* save-as: a bundle with an empty package, baked and then installed.      *)
SaveAsGenome(src, s) ==
  /\ s # Incubator /\ s \notin Listed \cup Catalog
  /\ LET own == Own(mods[src].genome)
         a == [slug |-> s, manifest |-> NewManifest(Minted, TRUE, src), code |-> "good",
               rows |-> Remapped(own, Renaming(own)), media |-> MediaOf(src)]
     IN  /\ \E f \in [own -> UnusedPks] : Renames(own, f)
         /\ zips' = [zips EXCEPT ![s] = a]
         /\ Unpack(a)

SaveAs(src, s) ==
  /\ Request
  /\ Visible(src)
  /\ Genomes \ UsedGenomes # {}
  /\ SaveAsGenome(src, s)
  /\ UNCHANGED <<grafts, tables, path>>

-----------------------------------------------------------------------------
(* What users do meanwhile. *)

Meanwhile ==
  /\ phase = "up" /\ events < MaxEvents
  /\ events' = events + 1 /\ fresh' = FALSE
  /\ UNCHANGED <<phase, crashed, used>>

(* A row of a table with hard keys has one, and its keys are of that type. *)
Typed(p, data) ==
  /\ \A q \in data.refs : <<Table[p], Table[q]>> \in Hard
  /\ \A q \in data.loose : <<Table[p], Table[q]>> \in Loose
  /\ data.refs = {} => \A q \in Pks : <<Table[p], Table[q]>> \notin Hard

(* A new row goes to the genome selected for edit, or to the workspace.    *)
CreateRow(p, data) ==
  /\ Meanwhile /\ op = Idle
  /\ Typed(p, data) /\ data.refs \cup data.loose \subseteq Existing
  /\ p \in UnusedPks
  /\ LET s == IF edit = {} THEN Incubator ELSE CHOOSE t \in edit : TRUE
     IN  rows' = [rows EXCEPT ![p] = Owned(mods[s].genome, data)]
  /\ UNCHANGED <<files, mods, edit, path, op>>

(* PATCH of a hard key of a row, from one row of a table to another.  Only *)
(* a PATCH of the genome is refused for the rows of the core.              *)
Reparent(p) ==
  /\ Meanwhile /\ op = Idle
  /\ p \in Existing
  /\ \E q \in rows[p].refs, r \in Existing :
       /\ r # q /\ Table[r] = Table[q]
       /\ rows' = [rows EXCEPT ![p] = [rows[p] EXCEPT !.refs = (rows[p].refs \ {q}) \cup {r}]]
  /\ UNCHANGED <<files, mods, edit, path, op>>

(* A loose key is set or cleared.                                          *)
Relink(p) ==
  /\ Meanwhile /\ op = Idle
  /\ p \in Existing
  /\ \E q \in {r \in Existing : <<Table[p], Table[r]>> \in Loose} :
     \E loose \in {rows[p].loose \ {q}, rows[p].loose \cup {q}} :
       rows' = [rows EXCEPT ![p] = [rows[p] EXCEPT !.loose = loose]]
  /\ UNCHANGED <<files, mods, edit, path, op>>

NoTree == [manifest |-> None, code |-> "absent", media |-> {}]

Carrying(s, file) ==
  LET tree == IF grafts[s] = None THEN NoTree ELSE grafts[s]
  IN  [tree EXCEPT !.media = tree.media \cup file]

(* The file of an avatar, if it has one, goes from tree to tree; the       *)
(* directory is made where there was none.                                 *)
MoveMedia(p, s) ==
  \/ grafts' = grafts
  \/ /\ Table[p] = "Avatar"
     /\ \E t \in Listed :
          /\ mods[t].genome = rows[p].genome
          /\ \E m \in MediaOf(t) :
               grafts' = [grafts EXCEPT
                 ![t] = [grafts[t] EXCEPT !.media = grafts[t].media \ {m}],
                 ![s] = Carrying(s, {m})]

(* Neither into canonical, nor out of it, nor to a genome that is broken;  *)
(* nobody asks whose the parts are that go along.                          *)
MoveRow(p, s) ==
  /\ Meanwhile /\ op = Idle
  /\ rows[p] # None /\ rows[p].genome # Canonical
  /\ s \in Installed /\ rows[p].genome # mods[s].genome
  /\ rows' = [q \in Pks |-> IF q \in Moved(p)
                THEN [rows[q] EXCEPT !.genome = mods[s].genome] ELSE rows[q]]
  /\ MoveMedia(p, s)
  /\ UNCHANGED <<zips, mods, edit, path, op>>

(* PATCH selected_for_edit: saving one row clears the others.              *)
SelectForEdit(s) ==
  /\ Meanwhile /\ op = Idle
  /\ Visible(s)
  /\ edit' \in {{s}, edit \ {s}}
  /\ UNCHANGED <<files, mods, rows, path, op>>

(* The code and the media of a tree are files that people edit, also while *)
(* a request is served.                                                    *)
EditTree(s, code) ==
  /\ Meanwhile
  /\ grafts[s] # None
  /\ grafts' = [grafts EXCEPT ![s] =
       [grafts[s] EXCEPT !.code = code, !.media = grafts[s].media \cup {"uploaded"}]]
  /\ UNCHANGED <<zips, tables, path, op>>

(* An archive is put into genomes/ by hand, by a pull of the repository.   *)
PlaceArchive(a) ==
  /\ Meanwhile /\ op = Idle
  /\ zips' = [zips EXCEPT ![a.slug] = a]
  /\ UNCHANGED <<grafts, tables, path, op>>

-----------------------------------------------------------------------------
(* Another process, because a request asked for it or because this one     *)
(* died.  File work it was in the middle of is half done.                  *)
(* What is left of a tree by a copy or a removal that was cut short.       *)
Partial(tree) ==
  {None} \cup IF tree = None THEN {} ELSE
    [manifest : {None, tree.manifest}, media : SUBSET tree.media,
     code : IF tree.code = "absent" THEN {"absent"} ELSE {"absent", "bad", tree.code}]

(* ... or by a merge over it.                                              *)
HalfMerged(tree, a) ==
  [manifest : {None, tree.manifest, a.manifest}, code : {"absent", "bad", tree.code, a.code},
   media : {tree.media \cup more : more \in SUBSET a.media}]

(* Which trees a process can leave torn when it dies, and how.             *)
Torn(s) ==
  IF op # Idle /\ op.slug = s THEN
    CASE op.kind = "copy"             -> Partial(Tree(op.archive))
      [] op.kind \in {"swap", "load"} -> Partial(grafts[s])
      [] op.kind = "regraft"          -> Partial(grafts[s]) \cup Partial(Tree(zips[s]))
      [] OTHER                        -> {}
  ELSE IF phase = "graft" /\ s = Incubator THEN
    IF grafts[s] = None THEN Partial(Tree(zips[s]))
    ELSE IF grafts[s].manifest # zips[s].manifest THEN HalfMerged(grafts[s], zips[s]) ELSE {}
  ELSE IF phase = "sweep" /\ s \notin Installed THEN Partial(grafts[s])
  ELSE {}

Restart ==
  /\ events < MaxEvents /\ events' = events + 1
  /\ \/ grafts' = grafts
     \/ \E s \in Slugs : \E tree \in Torn(s) : grafts' = [grafts EXCEPT ![s] = tree]
  /\ crashed' = (crashed \/ op # Idle)
  /\ phase' = "graft" /\ path' = {} /\ op' = Idle /\ fresh' = FALSE
  /\ UNCHANGED <<zips, tables, used>>

Boot(from, to) ==
  /\ phase = from /\ phase' = to
  /\ UNCHANGED <<zips, rows, op, crashed, used, events>>

BootGraft ==
  /\ Boot("graft", "sweep")
  /\ Graft(grafts[Incubator])
  /\ UNCHANGED <<edit, fresh>>

(* The trees of genomes that are not INSTALLED are removed.                *)
BootSweep ==
  /\ Boot("sweep", "load")
  /\ grafts' = [s \in Slugs |-> IF s \in Installed THEN grafts[s] ELSE None]
  /\ UNCHANGED <<mods, edit, path, fresh>>

(* mutant: the code of the tree is not tried.                              *)
SoundManifest(s) == grafts[s].manifest = mods[s].hash

Flagged(row) == [row EXCEPT !.status = "BROKEN"]

(* The manifest of the tree is the one installed, and the code imports.    *)
Sound(s) ==
  grafts[s].manifest = mods[s].hash /\ Importable(grafts[s].manifest, grafts[s].code)

(* Every tree that is there is looked at.                                  *)
BootLoad ==
  /\ Boot("load", "mutex")
  /\ LET there == {s \in Installed : grafts[s] # None}
     IN  /\ mods' = [s \in Slugs |-> IF s \in there /\ ~Sound(s)
                       THEN Flagged(mods[s]) ELSE mods[s]]
         /\ path' = path \cup {s \in there : grafts[s].manifest = mods[s].hash}
  /\ UNCHANGED <<grafts, edit, fresh>>

(* Exactly one genome is selected for edit.                                *)
BootMutex ==
  /\ Boot("mutex", "up")
  /\ edit' = IF Cardinality(edit) = 1 THEN edit ELSE {Incubator}
  /\ fresh' = TRUE
  /\ UNCHANGED <<grafts, mods, path>>

Serve ==
  \/ \E a \in Uploads : UploadInstall(a)
  \/ \E s \in Slugs :
       \/ SlugInstall(s) \/ CatalogInstall(s) \/ CatalogDelete(s)
       \/ Uninstall(s) \/ Save(s) \/ EditMetadata(s) \/ CreateEmpty(s)
       \/ \E allowSame \in BOOLEAN : Upgrade(s, allowSame)
       \/ \E src \in Slugs : SaveAs(src, s)

Proceed ==
  \/ InstallBegin \/ InstallCopy \/ InstallLoad \/ InstallFailed
  \/ Regraft
  \/ UpgradeSwap \/ UpgradeRefused \/ UpgradeCommit \/ UpgradeFailed
  \/ SaveBegin \/ SaveRefused \/ Pack \/ Register

NoKeys    == [refs |-> {}, loose |-> {}]
KeysTo(q) == {[refs |-> {q}, loose |-> {}], [refs |-> {}, loose |-> {q}]}

Users ==
  \/ \E p \in Pks :
       \/ \E data \in {NoKeys} \cup UNION {KeysTo(q) : q \in Pks} : CreateRow(p, data)
       \/ Relink(p) \/ Reparent(p) \/ \E s \in Slugs : MoveRow(p, s)
  \/ \E s \in Slugs :
       SelectForEdit(s) \/ \E code \in {"absent", "bad"} : EditTree(s, code)
  \/ \E a \in Uploads : PlaceArchive(a)

BootStep == BootGraft \/ BootSweep \/ BootLoad \/ BootMutex

Next == Serve \/ Proceed \/ Users \/ Restart \/ BootStep

Spec == Init /\ [][Next]_vars

-----------------------------------------------------------------------------

(* Archives, trees, rows and requests hold what they can hold.             *)
TypeOK ==
  /\ zips \in [Slugs -> Archive \cup {None}]
  /\ grafts \in [Slugs -> GraftTree \cup {None}]
  /\ mods \in [Slugs -> Modifier \cup {None}]
  /\ rows \in [Pks -> OwnedRow \cup {None}]
  /\ edit \subseteq Slugs /\ path \subseteq Slugs
  /\ phase \in Phase /\ op \in Operation
  /\ fresh \in BOOLEAN /\ crashed \in BOOLEAN

(* No process having died in the middle of a request, a genome that says   *)
(* INSTALLED has its tree, whichever operations succeeded or failed before *)
(* (the undo branch of install_source_to_graft).                           *)
InstalledIsThere ==
  phase = "up" /\ ~crashed =>
    \A s \in Installed : (op # Idle /\ op.slug = s) \/ grafts[s] # None

(* After a boot, whatever the crash before it tore: a genome that says     *)
(* INSTALLED and has a tree has the tree that was installed, whose code    *)
(* imports and is on sys.path; no tree is left of a genome without a row;  *)
(* one genome takes the edits.  The boot does not look for a tree that is  *)
(* gone, nor at the rows (_boot_one).                                      *)
BootLeavesSound ==
  fresh =>
    /\ \A s \in Installed : grafts[s] # None =>
         /\ grafts[s].manifest = mods[s].hash /\ s \in path
         /\ grafts[s].manifest.entry => grafts[s].code = "good"
    /\ \A s \in Slugs : grafts[s] # None => mods[s] # None
    /\ Cardinality(edit) = 1

(* The program removes or replaces no archive of a genome that has a row,  *)
(* but by a save, and what a save puts in its place has the code its       *)
(* manifest declares, whatever people do to the tree after the check that  *)
(* comes first (_missing_entry_modules, _verify_staged_archive).           *)
ArchivesKept ==
  [][\A s \in Slugs : zips[s] # None /\ zips'[s] # zips[s] =>
       \/ op = Idle /\ zips'[s] \in Uploads
       \/ zips'[s] = None /\ mods[s] = None
       \/ /\ zips'[s] # None /\ mods[s] # None
          /\ ~Missing(zips'[s].manifest, zips'[s].code)]_vars

(* The genome an operation is about: the one it runs for, or the one that  *)
(* loses its row or its manifest at once.                                  *)
Subject(s) ==
  /\ mods[s] # None
  /\ \/ op # Idle /\ op.slug = s
     \/ mods'[s] = None
     \/ mods'[s].hash = None /\ op' # Idle

(* A row that stays as it is, but for loose keys to rows of S.             *)
OnlyLoosened(p, S) ==
  /\ rows'[p] # None /\ rows[p].loose \ S \subseteq rows'[p].loose
  /\ rows'[p].loose \subseteq rows[p].loose
  /\ rows'[p].genome = rows[p].genome /\ rows'[p].refs = rows[p].refs

(* A user has given p, or what p is a part of, to another genome.          *)
HandedOver(p) ==
  \E q \in Existing :
    /\ rows[q].genome # Canonical /\ p \in Moved(q)
    /\ rows'[p].genome = rows'[q].genome
    /\ rows'[p].refs = rows[p].refs /\ rows'[p].loose = rows[p].loose

(* No operation changes or removes a row of the core, of the workspace or  *)
(* of another genome: but rows with a hard key to one it removes go, and   *)
(* loose keys to one it removes are cleared.  Otherwise a row changes      *)
(* hands only when a user moves it, or the pathway, effector or executable *)
(* it hangs on: a row of the core leaves the core in this way alone.       *)
OthersUntouched ==
  [][\A p \in Pks : rows[p] # None /\ rows'[p] # rows[p] =>
       \/ \E s \in Slugs :
            LET doomed == Doomed(Own(mods[s].genome))
            IN  Subject(s) /\ (p \in doomed \/ OnlyLoosened(p, doomed))
       \/ /\ op = Idle /\ op' = Idle /\ rows'[p] # None
          /\ rows'[p].genome = rows[p].genome \/ HandedOver(p)]_vars

(* What save-as forges has as many rows as its source, under keys nothing  *)
(* has used, and none of them refers to a row of the source.               *)
ClonesApart ==
  [][\A s \in Slugs : zips[s] = None /\ zips'[s] # None /\ zips'[s].manifest.from # None =>
       LET own  == Own(mods[zips'[s].manifest.from].genome)
           data == zips'[s].rows
       IN  /\ Cardinality(Holds(data)) = Cardinality(own)
           /\ \A p \in Holds(data) :
                rows[p] = None /\ (data[p].refs \cup data[p].loose) \cap own = {}]_vars

=============================================================================
