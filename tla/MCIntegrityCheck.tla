-------------------------- MODULE MCIntegrityCheck --------------------------
(* Instance of IntegrityCheck: trees of two entries out of a file, a        *)
(* directory and a symlink, shared by two workers.                          *)
EXTENDS IntegrityCheck, TLC

Obj(kind, data, mtime, owner, mode) ==
  [kind |-> kind, data |-> data, mtime |-> mtime, owner |-> owner,
   mode |-> mode]

MCPaths == {"f", "d", "l"}
AFile == Obj("file", 0, 0, 0, 0)
ADir == Obj("dir", 0, 0, 0, 0)
ALink == Obj("symlink", 0, 0, 0, 0)

Case(opt, sf, sd, sl, df, dd, dl) ==
  [setup |-> opt,
   source |-> ("f" :> sf) @@ ("d" :> sd) @@ ("l" :> sl),
   dest |-> ("f" :> df) @@ ("d" :> dd) @@ ("l" :> dl)]

Setup(quick, auto_fix, objects, target) ==
  [quick |-> quick, auto_fix |-> auto_fix, objects |-> objects,
   target |-> target]
Repair == Setup(FALSE, TRUE, FALSE, "owner")

\* The file has another owner and mode, another content of the same length,
\* another length, or is missing; the directory has another allocation, or
\* another time and mode; the symlink has another owner, or is a file.
MCCases ==
  {Case(Repair, AFile, Absent, ALink,
        Obj("file", 0, 0, 1, 1), Absent, Obj("symlink", 0, 0, 1, 0)),
   Case(Repair, AFile, ADir, Absent,
        Obj("file", 1, 0, 1, 0), Obj("dir", 0, 1, 0, 1), Absent),
   Case(Setup(TRUE, TRUE, FALSE, "mode"), AFile, ADir, Absent,
        Obj("file", 1, 0, 1, 1), Obj("dir", 2, 0, 0, 0), Absent),
   Case(Setup(TRUE, TRUE, FALSE, "none"), AFile, Absent, ALink,
        Obj("file", 2, 1, 0, 0), Absent, Obj("file", 0, 0, 0, 0)),
   Case(Setup(FALSE, TRUE, TRUE, "unsupported"), Absent, ADir, ALink,
        Absent, Absent, Obj("symlink", 2, 1, 0, 0)),
   Case(Setup(FALSE, FALSE, FALSE, "owner"), AFile, ADir, Absent,
        Absent, Obj("dir", 0, 0, 1, 0), Absent)}

MCEdited == ("f" :> {Absent}) @@ ("d" :> {Obj("dir", 0, 2, 1, 1)}) @@ ("l" :> {})
=============================================================================
