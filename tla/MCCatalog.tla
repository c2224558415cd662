----------------------------- MODULE MCCatalog -----------------------------
(* Instances of Catalog for TLC: a worker with versions 1, 2 and 3 and a    *)
(* second program, as the demo has it with its worker.                      *)
EXTENDS Catalog

V(n) == <<n, 0, 0>>
MCVersions == {V(1), V(2), <<2, 0, 1>>}

PkgPath(name, version) == Path("agent", Owner, <<name, "pkg", ToString(version)>>)
Package(name, version, channel) ==
    <<Manifest("crc", 1, channel, InstallPath(name), Elf(name, version))>> \o Elf(name, version)

Entry(name, version, min) ==
    [name |-> name, version |-> version, pkg_path |-> PkgPath(name, version),
     install_path |-> InstallPath(name), min_version |-> min]

MCIndexes == {<<Entry("worker", <<2, 0, 1>>, V(2)), Entry("tool", V(2), V(0))>>}
SeedIndex == <<Entry("worker", V(2), V(1)), Entry("tool", V(2), V(0))>>

\* Good packages, one cut off after the manifest's sector, one whose program
\* was changed after signing, and one for the other channel.
MCPackages == {File(PkgPath("worker", V(2)), Package("worker", V(2), "stable")),
               File(PkgPath("worker", V(2)), <<Package("worker", V(2), "stable")[1], <<"junk", V(2)>>>>),
               File(PkgPath("worker", <<2, 0, 1>>), Package("worker", <<2, 0, 1>>, "beta")),
               File(PkgPath("tool", V(2)), Package("tool", V(2), "stable")),
               File(PkgPath("tool", V(2)), <<Package("tool", V(2), "stable")[1]>>)}

MCSysFiles == <<>>
Installed == <<File(InstallPath("worker"), Elf("worker", V(1))),
               File(InstallPath("tool"), Elf("tool", V(1))),
               File(CATALOG_PATH_INDEX, SeedIndex),
               File(PkgPath("worker", V(2)), Package("worker", V(2), "stable"))>>
Note(i) == File(Path("agent", Owner, <<"note", i>>), <<"text">>)

\* The files demo_catalog.c starts with, and a table that has no record of a
\* version yet and no room for one beside a backup.
MCSeeds == {Installed \o <<File(CATALOG_PATH_ACTIVE, Record("worker", V(1), InstallPath("worker")))>>,
            Installed \o <<File(PkgPath("tool", V(2)), Package("tool", V(2), "stable")), Note(1), Note(2), Note(3)>>}
=============================================================================
