------------------------------ MODULE MCCache -------------------------------
(***************************************************************************)
(* Instances of Cache for TLC: two paths, of which the first may have an   *)
(* object before the first mount, and the request mixes of the runs.       *)
(***************************************************************************)
EXTENDS Cache, TLC

p1 == <<"p">>
p2 == <<"q">>

MCPath == {p1, p2}
MCKeyOrder == <<p1, p2>>
MCIno == 1..MaxIno
MCSig == 0..Dir

OneObject == p1 :> 1 @@ p2 :> 0

Symmetry == Permutations(Client)

\* Every request on files.
FileOps == (PathOps \cup HandleOps) \ {"mkdir", "rmdir", "readdir"}

\* Two directories of one file each, the first of which exists.
da == <<"a">>
dax == <<"a", "x">>
dbb == <<"b">>
dbx == <<"b", "x">>
TreePath == {da, dax, dbb, dbx}
TreeOrder == <<da, dax, dbb, dbx>>
TreeObjects == da :> Dir @@ dax :> 1 @@ dbb :> 0 @@ dbx :> 0

\* Files shared by several handles, in directories that are renamed.
SharedOps == {"open", "unlink", "rename", "write", "release"}

\* Requests whose unlocked parts meet those of other requests on one path.
OnePath == {p1}
OneKey == <<p1>>
ItsObject == p1 :> 1
RacingOps == {"create", "open", "unlink", "write", "release"}

\* One file truncated to a smaller size.
ShrinkingOps == {"open", "shrink", "release"}

\* What changes the storage, the catalog or a cache file of one path.
CrashOps == {"create", "open", "unlink", "read", "write", "release"}

\* A directory that exists and a file in it that does not.
dd == <<"d">>
dx == <<"d", "x">>
DirPath == {dd, dx}
DirOrder == <<dd, dx>>
DirObjects == dd :> Dir @@ dx :> 0

\* Requests on a directory and its file, without renames.
DirOps == {"create", "mkdir", "open", "unlink", "rmdir", "readdir", "write", "release"}
=============================================================================
