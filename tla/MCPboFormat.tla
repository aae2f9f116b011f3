----------------------------- MODULE MCPboFormat -----------------------------
EXTENDS PboFormat

MCNames == {1, 2}

\* 32 is the space.
Texts(letters, n) == UNION {[1 .. k -> letters] : k \in 0 .. n}
\* All short texts; some longer than the dictionary; one too long for a size.
MCContents ==
  <<{<< >>, <<65, 65>>},
    Texts({32, 65}, 6) \cup Texts({32, 65, 66}, 4)
      \cup {<<65, 66, 65, 66, 65, 66, 65, 66, 32>>, <<65, 32, 32, 32, 65, 32, 32, 32>>,
            <<65, 66, 32, 65, 66, 32, 66, 65>>, [k \in 1 .. 16 |-> 65]}>>

\* Without headers; without a signature; with empty entries of both kinds;
\* without a boundary; with the boundary first; with an entry twice; cut short.
F(h, e, d) == [headers |-> h, entries |-> e, data |-> d]
E(n, size) == Entry(n, "Uncompressed", 0, size)
MCForeign ==
  {F(<< >>, <<E(1, 2), E(2, 1), MakeBoundary>>, <<65, 66, 67, 0, Signature>>),
   F(<<Boundary>>, <<MakeSignature, E(1, 1), MakeBoundary>>, <<65>>),
   F(<<Boundary>>, <<MakeSignature, Entry(1, "Packed", 0, 0), E(2, 2), E(1, 0), MakeBoundary>>,
     <<65, 66, 0, Signature>>),
   F(<<Boundary>>, <<MakeSignature, E(1, 1)>>, << >>),
   F(<< >>, <<MakeBoundary>>, << >>),
   F(<<3>>, << MakeSignature >>, << >>),
   F(<<Boundary>>, <<MakeSignature, E(1, 1), E(1, 2), E(2, 1), MakeBoundary>>,
     <<65, 66, 67, 68, 0, Signature>>),
   F(<<Boundary>>, <<MakeSignature, E(1, 3), MakeBoundary>>, <<65>>)}

=============================================================================
