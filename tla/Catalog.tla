------------------------------ MODULE Catalog ------------------------------
(***************************************************************************)
(* kernel/ota.c and kernel/catalog.c: packages with a manifest and a        *)
(* signature, an index of the packages there are, and the record of the     *)
(* version in force and of the one to go back to, all files of ramfs.       *)
(*                                                                         *)
(* A file is a sequence of chunks: a line of the index or of a record, the  *)
(* manifest of a package, a piece of a program.  A signature is the program *)
(* it was made for: checksums and hashes are taken to have no collisions.   *)
(* A call runs in the trap handler of one hart and is one step.             *)
(***************************************************************************)
EXTENDS Ramfs, SequencesExt

CONSTANTS
    Names,             \* programs
    Agents, Owner,     \* agents; agent 1, which keeps the index
    Channels, Stable,  \* channels packages are made for; the default
    Indexes,           \* contents of the index the owner publishes
    Packages,          \* contents the owner stages under a path
    Versions,          \* versions of the programs
    Seeds,             \* the files the owner may start with
    MAX_CALLS          \* bound of the exploration

VARIABLES
    files,
    call,      \* the last call: what it was, its program, its answer
    through,   \* programs installed so far, and "ota" once a package was applied directly
    calls

vars == <<files, call, through, calls>>

OTA_PATH_CHANNEL == Path("sys", "ota", <<"channel">>)
CATALOG_PATH_INDEX == Path("agent", Owner, <<"catalog", "index">>)
CATALOG_PATH_ACTIVE == Path("agent", Owner, <<"catalog", "active">>)
CATALOG_PATH_ROLLBACK == Path("agent", Owner, <<"catalog", "rollback">>)

Result(rc, fs) == [rc |-> rc, files |-> fs]

-----------------------------------------------------------------------------
(* kernel/ota.c                                                            *)

\* A package for a program: what its manifest says, then the program.
Manifest(format, size, channel, install, sig) ==
    [format |-> format, elf_size |-> size, channel |-> channel, install_path |-> install, sig |-> sig]

ota_init(fs) ==
    IF ramfs_read(fs, OTA_PATH_CHANNEL) # <<>> THEN fs ELSE ramfs_put(fs, OTA_PATH_CHANNEL, <<Stable>>)

ota_pkg_path_ok(a, path) == (path.root = "sys" /\ path.id = "ota") \/ (path.root = "agent" /\ path.id = a)

ota_channel_matches(fs, channel) ==
    LET cur == ramfs_read(fs, OTA_PATH_CHANNEL) IN IF cur = <<>> THEN channel = Stable ELSE cur[1] = channel

\* The two formats differ in how the signature is computed.
SignatureMatches(manifest, elf) == manifest.format \in {"crc", "hmac"} /\ manifest.sig = elf

\* The package is copied to the heap first, which is never given back; heap is
\* what is left of it, in packages.
ota_parse_package(fs, path, heap) ==
    LET pkg == ramfs_read(fs, path)
        elf == Tail(pkg)
    IN  CASE ~ramfs_path_exists(fs, path)                     -> "ENOENT"
          [] Len(pkg) < 2                                     -> "EINVAL"
          [] heap = 0                                         -> "ENOSPC"
          [] pkg[1].format \notin {"crc", "hmac"}             -> "EINVAL"
          [] pkg[1].elf_size > Len(elf)                       -> "EINVAL"
          [] ~SignatureMatches(pkg[1], elf)                   -> "EPERM"
          [] ~ota_channel_matches(fs, pkg[1].channel)         -> "EPERM"
          [] OTHER                                            -> "OK"

ota_apply_package_kpath(fs, a, path, heap) ==
    LET rc == ota_parse_package(fs, path, heap)
        pkg == ramfs_read(fs, path)
        elf == SubSeq(pkg, 2, 1 + pkg[1].elf_size)
    IN  IF ~ota_pkg_path_ok(a, path) THEN Result("EPERM", fs)
        ELSE IF rc # "OK" THEN Result(rc, fs)
        ELSE IF ~PutAccepts(fs, pkg[1].install_path, elf) THEN Result("ENOSPC", fs)
        ELSE Result("OK", ramfs_put(fs, pkg[1].install_path, elf))

ota_channel_set(fs, channel) ==
    IF PutAccepts(fs, OTA_PATH_CHANNEL, <<channel>>)
    THEN Result("OK", ramfs_put(fs, OTA_PATH_CHANNEL, <<channel>>))
    ELSE Result("ENOSPC", fs)

-----------------------------------------------------------------------------
(* kernel/catalog.c                                                        *)

\* A version is three numbers; <<>> is a text with more than two dots.
version_ge(a, b) ==
    /\ a # <<>>
    /\ \/ b = <<>>
       \/ a[1] > b[1]
       \/ a[1] = b[1] /\ a[2] > b[2]
       \/ a[1] = b[1] /\ a[2] = b[2] /\ a[3] >= b[3]

\* A file that is there and not empty replaces or creates another.
catalog_copy_file(fs, src, dst) ==
    IF ~ramfs_path_exists(fs, src) THEN Result("ENOENT", fs)
    ELSE IF ramfs_read(fs, src) = <<>> THEN Result("EIO", fs)
    ELSE IF ~PutAccepts(fs, dst, ramfs_read(fs, src)) THEN Result("ENOSPC", fs)
    ELSE Result("OK", ramfs_put(fs, dst, ramfs_read(fs, src)))

\* The first line about a program, and whether there is one.
LinesOf(fs, path, name) == {i \in DOMAIN ramfs_read(fs, path) : ramfs_read(fs, path)[i].name = name}
HasLine(fs, path, name) == LinesOf(fs, path, name) # {}
LineOf(fs, path, name) == ramfs_read(fs, path)[Min(LinesOf(fs, path, name))]

catalog_find_entry(fs, name) == LineOf(fs, CATALOG_PATH_INDEX, name)
catalog_active_line(fs, name) == LineOf(fs, CATALOG_PATH_ACTIVE, name)
catalog_read_rollback(fs, name) == LineOf(fs, CATALOG_PATH_ROLLBACK, name)

\* Each record holds one line: the program named last.
Record(name, version, path) == <<[name |-> name, version |-> version, path |-> path]>>

catalog_set_active(fs, name, version, path) ==
    IF PutAccepts(fs, CATALOG_PATH_ACTIVE, Record(name, version, path))
    THEN Result("OK", ramfs_put(fs, CATALOG_PATH_ACTIVE, Record(name, version, path)))
    ELSE Result("ENOSPC", fs)

catalog_set_rollback(fs, name, version, path) ==
    IF PutAccepts(fs, CATALOG_PATH_ROLLBACK, Record(name, version, path))
    THEN Result("OK", ramfs_put(fs, CATALOG_PATH_ROLLBACK, Record(name, version, path)))
    ELSE Result("ENOSPC", fs)

\* The path with ".prev" behind it.
Backup(install) == [install EXCEPT !.name = Append(@, "prev")]

\* The next step of a call that stops at the first error.
Then(r, Step(_)) == IF r.rc = "OK" THEN Step(r.files) ELSE r

\* With a version on record a program must have at least the entry's minimum;
\* without one the minimum must start with the digit 0.
VersionAllows(fs, name, entry) ==
    IF HasLine(fs, CATALOG_PATH_ACTIVE, name)
    THEN version_ge(catalog_active_line(fs, name).version, entry.min_version)
    ELSE entry.min_version # <<>> /\ entry.min_version[1] = 0

\* Slip: a backup that is there already is taken for the right one.
RememberOldBackup(fs, name, install) ==
    IF FileSize(fs, install) = 0 THEN Result("OK", fs)
    ELSE Then(IF HasLine(fs, CATALOG_PATH_ACTIVE, name)
              THEN catalog_set_rollback(fs, name, catalog_active_line(fs, name).version, Backup(install))
              ELSE Result("OK", fs),
              LAMBDA f : IF ramfs_path_exists(f, Backup(install)) THEN Result("OK", f)
                         ELSE catalog_copy_file(f, install, Backup(install)))

\* The record is written before the copy is made.
Remember(fs, name, install) ==
    IF FileSize(fs, install) = 0 THEN Result("OK", fs)
    ELSE Then(IF HasLine(fs, CATALOG_PATH_ACTIVE, name)
              THEN catalog_set_rollback(fs, name, catalog_active_line(fs, name).version, Backup(install))
              ELSE Result("OK", fs),
              LAMBDA f : catalog_copy_file(f, install, Backup(install)))

\* Slip: when the package cannot be applied the backup is put in force.
InstallFallsBack(fs, a, name, heap) ==
    LET entry == catalog_find_entry(fs, name)
        verify == ota_parse_package(fs, entry.pkg_path, heap)
        cur   == catalog_active_line(fs, name).version
        saved == Remember(fs, name, entry.install_path)
        done  == Then(saved, LAMBDA f : ota_apply_package_kpath(f, a, entry.pkg_path, heap - 1))
    IN  IF ~HasLine(fs, CATALOG_PATH_INDEX, name) THEN Result("ENOENT", fs)
        ELSE IF ~VersionAllows(fs, name, entry) THEN Result("EPERM", fs)
        ELSE IF verify # "OK" THEN Result(verify, fs)
        ELSE IF saved.rc = "OK" /\ done.rc # "OK" /\ HasLine(fs, CATALOG_PATH_ACTIVE, name)
        THEN Result(done.rc, catalog_set_active(saved.files, name, cur, Backup(entry.install_path)).files)
        ELSE Then(done, LAMBDA f : catalog_set_active(f, name, entry.version, entry.install_path))

\* The package is verified, and parsed again when it is applied.
catalog_install(fs, a, name, heap) ==
    LET entry == catalog_find_entry(fs, name)
        verify == ota_parse_package(fs, entry.pkg_path, heap)
    IN  IF ~HasLine(fs, CATALOG_PATH_INDEX, name) THEN Result("ENOENT", fs)
        ELSE IF ~VersionAllows(fs, name, entry) THEN Result("EPERM", fs)
        ELSE IF verify # "OK" THEN Result(verify, fs)
        ELSE Then(Then(Remember(fs, name, entry.install_path),
                       LAMBDA f : ota_apply_package_kpath(f, a, entry.pkg_path, heap - 1)),
                  LAMBDA f : catalog_set_active(f, name, entry.version, entry.install_path))

\* Slip: the program is restored and the version on record is not.
RollbackFilesOnly(fs, name) ==
    LET point   == catalog_read_rollback(fs, name)
        install == IF HasLine(fs, CATALOG_PATH_ACTIVE, name) THEN catalog_active_line(fs, name).path ELSE point.path
    IN  IF ~HasLine(fs, CATALOG_PATH_ROLLBACK, name) THEN Result("ENOENT", fs)
        ELSE catalog_copy_file(fs, point.path, install)

\* Clearing the record at the end writes an empty file, which ramfs_put refuses.
catalog_rollback(fs, name) ==
    LET point   == catalog_read_rollback(fs, name)
        install == IF HasLine(fs, CATALOG_PATH_ACTIVE, name) THEN catalog_active_line(fs, name).path ELSE point.path
    IN  IF ~HasLine(fs, CATALOG_PATH_ROLLBACK, name) THEN Result("ENOENT", fs)
        ELSE IF FileSize(fs, point.path) = 0 THEN Result("ENOENT", fs)
        ELSE Then(Then(catalog_copy_file(fs, point.path, install),
                       LAMBDA f : catalog_set_active(f, name, point.version, install)),
                  LAMBDA f : Result("OK", ramfs_put(f, CATALOG_PATH_ROLLBACK, <<>>)))

-----------------------------------------------------------------------------
InstallPath(name) == Path("agent", Owner, <<name>>)

Init ==
    /\ \E seed \in Seeds :
           files = FoldLeft(LAMBDA fs, f : ramfs_put(fs, f.path, f.data), ota_init(ramfs_init), seed)
    /\ call = [op |-> "none", name |-> "none", rc |-> "OK"]
    /\ through = {}
    /\ calls = 0

Called(op, name, r) ==
    /\ calls' = calls + 1
    /\ files' = r.files
    /\ call' = [op |-> op, name |-> name, rc |-> r.rc]

\* A call that fails when it records the version has installed the program, too.
Install(a, name, heap) ==
    /\ Called("install", name, catalog_install(files, a, name, heap))
    /\ through' = IF ramfs_read(files', InstallPath(name)) # ramfs_read(files, InstallPath(name)) \/ call'.rc = "OK"
                  THEN through \cup {name} ELSE through

Rollback(name) == Called("rollback", name, catalog_rollback(files, name)) /\ UNCHANGED through

Apply(a, path, heap) ==
    /\ Called("apply", "none", ota_apply_package_kpath(files, a, path, heap))
    /\ through' = through \cup {"ota"}

SetChannel(channel) == Called("channel", "none", ota_channel_set(files, channel)) /\ UNCHANGED through

\* What the owner does with the write tool: a package under a path of its own.
Stage(p) == Called("stage", "none", Result("OK", ramfs_write(files, p.path, p.data))) /\ UNCHANGED through

\* A new index over the old one.
Publish(index) == Called("publish", "none", Result("OK", ramfs_write(files, CATALOG_PATH_INDEX, index))) /\ UNCHANGED through

PackagePaths == {p.path : p \in Packages}

Next ==
    /\ calls < MAX_CALLS
    /\ \/ \E a \in Agents, name \in Names, heap \in 0 .. 2 : Install(a, name, heap)
       \/ \E name \in Names : Rollback(name)
       \/ \E a \in Agents, path \in PackagePaths, heap \in 0 .. 1 : Apply(a, path, heap)
       \/ \E channel \in Channels : SetChannel(channel)
       \/ \E p \in Packages : Stage(p)
       \/ \E index \in Indexes : Publish(index)

Spec == Init /\ [][Next]_vars
-----------------------------------------------------------------------------
(* The program a version stands for, as the packages of the instance have it. *)

Elf(name, version) == <<<<name, version>>>>

\* Type invariant: no path has two slots, no file is full, and each record has
\* at most the line of one program.
TypeOK ==
    /\ \A i \in Slots : files[i] # NoFile =>
           Named(files, files[i].path) = {i} /\ Len(files[i].data) < RAMFS_FILE_SIZE
    /\ Len(ramfs_read(files, CATALOG_PATH_ACTIVE)) <= 1 /\ Len(ramfs_read(files, CATALOG_PATH_ROLLBACK)) <= 1
    /\ through \subseteq Names \cup {"ota"}

\* Only whole programs that were signed are ever installed, whatever was
\* staged, cut short or overwritten in the meantime: what stands under the
\* path of a program, or was saved from it, is that program in some version.
OnlySigned ==
    \A name \in Names : \A path \in {InstallPath(name), Backup(InstallPath(name))} :
        ramfs_path_exists(files, path) =>
            \E version \in Versions : ramfs_read(files, path) = Elf(name, version)

\* A catalog call that fails, for want of a slot or of memory, for the channel
\* or because the caller may not use the package, leaves the version on record
\* as it was, and the installed programs, too, unless it failed to create that
\* record: catalog_install has applied the package when it finds no slot for
\* the first line of it.  Then the program it replaced is in the backup.
FailureKeepsProgram ==
    [][calls' # calls /\ call'.rc # "OK" =>
           /\ ramfs_read(files', CATALOG_PATH_ACTIVE) = ramfs_read(files, CATALOG_PATH_ACTIVE)
           /\ \A name \in Names :
                  LET old == ramfs_read(files, InstallPath(name))
                  IN  \/ ramfs_read(files', InstallPath(name)) = old
                      \/ /\ ~ramfs_path_exists(files', CATALOG_PATH_ACTIVE) /\ FreeSlots(files') = {}
                         /\ call' = [op |-> "install", name |-> name, rc |-> "ENOSPC"]
                         /\ ramfs_read(files', Backup(InstallPath(name))) = old]_vars

\* As long as one program at most goes through the catalog and no package is
\* applied beside it, the records tell the truth: the version on record is the
\* one installed, and the version to go back to is the one in the backup, if
\* there is a backup at all.  Both hold through failed installations, repeated
\* installations and repeated rollbacks.
RecordsTrue ==
    Cardinality(through) <= 1 /\ "ota" \notin through =>
        \A name \in Names, path \in {CATALOG_PATH_ACTIVE, CATALOG_PATH_ROLLBACK} :
            LET line == LineOf(files, path, name)
            IN  HasLine(files, path, name) /\ ramfs_path_exists(files, line.path)
                    => ramfs_read(files, line.path) = Elf(name, line.version)

\* Under the same condition a rollback that answers 0 has put the version on
\* record as the one to go back to under the path programs are loaded from.
RollbackRestores ==
    Cardinality(through) <= 1 /\ "ota" \notin through =>
        \A name \in Names :
            LET r == catalog_rollback(files, name)
                point == catalog_read_rollback(files, name)
            IN  r.rc = "OK" => /\ ramfs_read(r.files, InstallPath(name)) = Elf(name, point.version)
                               /\ catalog_active_line(r.files, name).version = point.version

\* The state invariants of the installed programs and the records about them.
CatalogInv == TypeOK /\ OnlySigned /\ RecordsTrue
=============================================================================
