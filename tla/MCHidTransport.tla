--------------------------- MODULE MCHidTransport ---------------------------
(***************************************************************************)
(* Instances of HidTransport for TLC; see README.md.                       *)
(***************************************************************************)
EXTENDS HidTransport

Entry(unit, path, product, usage, page) ==
  [unit |-> unit, path |-> path, product |-> product, iface |-> 2,
   usage |-> usage, page |-> page]

\* Windows: a path per collection, listed twice; a keyboard collection before them.
Windows(u, product) ==
  << Entry(u, "kbd", product, "long", "0001"), Entry(u, "w-long", product, "long", "FF00"),
     Entry(u, "w-short", product, "short", "FF00"), Entry(u, "w-long", product, "long", "FF00") >>

\* macOS: one path for all collections.
Mac(u, path, product) ==
  << Entry(u, path, product, "long", "FF00"), Entry(u, path, product, "short", "FF00") >>

\* A device that is no known receiver, listed before one that is; and two receivers
\* that cannot be told apart.
SomeBuses ==
  { Mac("b", "m1", "mouse") \o Windows("a", "bolt"), Mac("b", "m1", "bolt") \o Mac("a", "m2", "bolt") }
=============================================================================
