---------------------------- MODULE MCTraduccion ----------------------------
(* Small instances of Traduccion for TLC. *)
EXTENDS Traduccion, TLC

ElementosMC == [nro_pagina: Paginas, nro_marco: Marcos, pid: Procesos]

\* Heap blocks are interchangeable.
Simetria == Permutations(Bloques) \union Permutations(Procesos)
==============================================================================
