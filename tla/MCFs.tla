-------------------------------- MODULE MCFs --------------------------------
(* Fs for TLC: processes are interchangeable.                              *)
EXTENDS Fs, TLC

Symmetry == Permutations(Procs)

Abs(names) == [abs |-> TRUE, names |-> names]
Rel(names) == [abs |-> FALSE, names |-> names]

One(op, path) == [op |-> op, path |-> path, new |-> None]

(* Calls on /a, /a/b and b. *)
TreeCalls ==
  {One("mkdir", Abs(<<"a">>)), One("create", Abs(<<"a", "b">>)), One("create", Rel(<<"b">>)),
   One("unlink", Abs(<<"a">>)), One("unlink", Abs(<<"a", "b">>)), One("unlink", Rel(<<"b">>)),
   One("chdir", Abs(<<"a">>)), One("chdir", Abs(<<>>)), One("open", Abs(<<"a", "b">>)), One("mkdir", Rel(<<"b">>)),
   [op |-> "link", path |-> Rel(<<"b">>), new |-> Abs(<<"a", "b">>)]}

(* Calls on /a, /a/b and .. *)
UpCalls ==
  {One("mkdir", Abs(<<"a", "b">>)), One("chdir", Abs(<<"a", "b">>)), One("open", Rel(<<"..">>)),
   One("unlink", Abs(<<"a">>)), One("unlink", Abs(<<"a", "b">>))}
=============================================================================
