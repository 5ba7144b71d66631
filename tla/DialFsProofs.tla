---------------------------- MODULE DialFsProofs ----------------------------
(***************************************************************************)
(* What a DialFS interface keeps when the requests are those it foresees:  *)
(* the files never share a block, the bitmap says which blocks are taken,  *)
(* the FCBs in memory are those a restart would load, and the programs see *)
(* a set of files.  Proved for any names, block size and number of blocks. *)
(***************************************************************************)
EXTENDS DialFs, SequenceTheorems, FiniteSetTheorems, FunctionTheorems,
        WellFoundedInduction, TLAPS

-----------------------------------------------------------------------------
(* The inductive invariant *)

\* The bits of the bitmap file are those of the blocks, and no more.
SinBitsDeMas == BLOCK_COUNT % BitsPorByte = 0

\* The cases covered are those that only harm what the files hold.
SoloDatos == Casos \subseteq {"DESALINEAR", "FUERA", "MUDAR"}

\* The request on n is halfway through, at one of pcs
EnCurso(pcs, n) == op.pc \in pcs /\ op.nombre = n

\* Blocks a file occupies or is about to: a TRUNCATE takes them in the bitmap
\* before it saves the size, and a compaction moves them before it saves where.
Donde(n) ==
  IF EnCurso({"guardar_mudado"}, n) THEN lista_fat[Posicion(lista_fat, n)].bloque
  ELSE metadata[n].bloque

Cuantos(n) ==
  IF EnCurso({"guardar", "guardar_mudado"}, n) THEN tamanio_en_bloques(op.nuevo)
  ELSE tamanio_en_bloques(metadata[n].tamanio)

Reservados(n) == Tramo(Donde(n), Cuantos(n))

\* Each file has one FCB at most, and there are none of files that are not.
UnFcb(l) ==
  /\ \A i, j \in DOMAIN l : l[i].nombre = l[j].nombre => i = j
  /\ \A i \in DOMAIN l : Esta(l[i].nombre)

\* The FCBs are the ones a restart would load, but that of a file just created
\* or moved, whose metadata is still to be saved.
FcbsFieles(l) ==
  \A i \in DOMAIN l :
    EnCurso({"asignar", "guardar_mudado"}, l[i].nombre) \/ l[i] = FcbLeido(l[i].nombre)

\* Only the file being created has no block.
MetadataBien ==
  \A n \in Nombres :
    Esta(n) => /\ metadata[n].tamanio \in Nat
               /\ metadata[n].bloque = SinBloque => EnCurso({"asignar"}, n)

Separados ==
  \A m \in Creados : /\ Reservados(m) \subseteq Bits
                     /\ \A n \in Creados \ {m} :
                          Reservados(m) \intersect Reservados(n) = {}

\* The bit is set after the block is in the metadata file, and cleared before
\* the metadata file is removed.
BitmapAlDia ==
  \A b \in Bits :
    bitmap[b] <=> \E m \in Creados : /\ b \in Reservados(m)
                                     /\ ~EnCurso({"marcar", "quitar"}, m)

\* What the operation halfway through has left
Pendiente ==
  op # Reposo =>
    LET n == op.nombre
        i == Posicion(lista_fat, n) IN
    /\ Esta(n)
    /\ Apariciones(lista_fat, n) # {}
    /\ op.pc = "asignar" =>
         /\ ~bitmap[op.indice]
         /\ metadata[n] = [bloque |-> SinBloque, tamanio |-> 0]
         /\ lista_fat[i] = [nombre |-> n, bloque |-> SinBloque, tamanio |-> 0,
                            tamanio_en_bloques |-> 1]
    /\ op.pc = "marcar" => metadata[n] = [bloque |-> op.indice, tamanio |-> 0]
    /\ op.pc = "quitar" => op.indice = i
    /\ op.pc = "guardar" =>
         /\ tamanio_en_bloques(metadata[n].tamanio) = 1
    /\ op.pc = "guardar_mudado" =>
         /\ metadata[n].tamanio = 0
         /\ lista_fat[i].bloque \in Bits
         /\ lista_fat[i].tamanio = op.nuevo
         /\ lista_fat[i].tamanio_en_bloques = tamanio_en_bloques(op.nuevo)

DiscoBien ==
  /\ UnFcb(lista_fat) /\ FcbsFieles(lista_fat)
  /\ MetadataBien /\ Separados /\ BitmapAlDia /\ Pendiente

-----------------------------------------------------------------------------
(* Blocks and bytes *)

LEMMA Constantes ==
  /\ BLOCK_SIZE \in Nat \ {0}
  /\ MaxTamanio \in Nat
  /\ Largos \subseteq Nat
  /\ Bytes \subseteq Nat
<1>1. BLOCK_SIZE \in Nat \ {0} /\ BLOCK_COUNT \in Nat /\ MaxTamanio \in Nat
  BY DialFsAssumption
<1>2. Largos \subseteq Nat
  BY DialFsAssumption
<1>3. Bytes \subseteq Nat
  BY DEF Bytes
<1> QED  BY <1>1, <1>2, <1>3

LEMMA BitsSonIntervalo ==
  \E N \in Nat \ {0} : Bits = 0..(N - 1)
<1>1. BLOCK_COUNT \in Nat \ {0} /\ BitsPorByte \in Nat \ {0}
  BY DialFsAssumption
<1>2. DEFINE q == (BLOCK_COUNT + BitsPorByte - 1) \div BitsPorByte
<1>3. q \in Nat \ {0}
  BY <1>1, SMT
<1>4. BitsPorByte * q \in Nat \ {0}
  BY <1>1, <1>3, SMT
<1> QED  BY <1>4 DEF Bits

LEMMA BitsExactos ==
  ASSUME SinBitsDeMas
  PROVE  Bits = 0..(BLOCK_COUNT - 1)
<1> USE DEF SinBitsDeMas
<1>1. BLOCK_COUNT \in Nat \ {0} /\ BitsPorByte \in Nat \ {0}
  BY DialFsAssumption
<1>2. DEFINE q == BLOCK_COUNT \div BitsPorByte
<1>3. q \in Nat /\ BLOCK_COUNT = BitsPorByte * q
  BY <1>1, SMT
<1>4. (BLOCK_COUNT + BitsPorByte - 1) \div BitsPorByte = q
  BY <1>1, <1>3, SMT
<1> QED  BY <1>3, <1>4 DEF Bits

\* A size in blocks is the least number of blocks that hold the bytes.
LEMMA Techo ==
  ASSUME NEW t \in Nat \ {0}
  PROVE  /\ tamanio_en_bloques(t) \in Nat \ {0}
         /\ t <= BLOCK_SIZE * tamanio_en_bloques(t)
         /\ t <= BLOCK_SIZE => tamanio_en_bloques(t) = 1
<1>1. BLOCK_SIZE \in Nat \ {0}
  BY DialFsAssumption
<1>2. DEFINE c == (-t) \div BLOCK_SIZE
<1>3. c \in Int /\ -t >= BLOCK_SIZE * c /\ -t < BLOCK_SIZE * c + BLOCK_SIZE
  BY <1>1, SMT
<1>4. c <= -1
  BY <1>1, <1>3, SMT
<1>5. t <= BLOCK_SIZE => c = -1
  BY <1>1, <1>3, SMT
<1>6. BLOCK_SIZE * (-c) = -(BLOCK_SIZE * c)
  BY <1>1, <1>3, SMT
<1>7. tamanio_en_bloques(t) = -c
  BY DEF tamanio_en_bloques
<1> HIDE DEF c
<1> QED  BY <1>1, <1>3, <1>4, <1>5, <1>6, <1>7

LEMMA Producto ==
  ASSUME NEW s \in Nat, NEW x \in Nat, NEW y \in Nat, x < y
  PROVE  s * x \in Nat /\ s * y \in Nat /\ s * x + s <= s * y
<1> PICK d \in Nat : y = x + 1 + d
  BY y - x - 1 \in Nat
<1>1. s * x \in Nat /\ s * d \in Nat
  OBVIOUS
<1>2. s * y = s * x + s + s * d
  OBVIOUS
<1> QED  BY <1>1, <1>2

LEMMA ByteDeBloque ==
  ASSUME NEW x \in 0..(BLOCK_COUNT - 1), NEW d \in Nat, d < BLOCK_SIZE
  PROVE  BLOCK_SIZE * x + d \in Bytes
<1>0. BLOCK_SIZE \in Nat /\ BLOCK_COUNT \in Nat
  BY DialFsAssumption
<1>1. BLOCK_SIZE \in Nat /\ BLOCK_COUNT \in Nat /\ x \in Nat
  BY <1>0
<1>2. x < BLOCK_COUNT
  BY <1>1
<1> PICK e, m : e = BLOCK_SIZE * x /\ m = BLOCK_SIZE * BLOCK_COUNT
  OBVIOUS
<1>3. e \in Nat /\ m \in Nat /\ e + BLOCK_SIZE <= m
  BY <1>1, <1>2, Producto
<1>4. e + d \in 0..(m - 1)
  BY <1>1, <1>3
<1> QED  BY <1>4 DEF Bytes

LEMMA TamanioEnBloques ==
  /\ tamanio_en_bloques(0) = 1
  /\ \A t \in Nat : tamanio_en_bloques(t) \in Nat \ {0}
<1> QED  BY Techo DEF tamanio_en_bloques

\* Inside a block, the size counted from the present one.
LEMMA TechoDentro ==
  ASSUME NEW t \in 1..BLOCK_SIZE, NEW nuevo \in 1..BLOCK_SIZE
  PROVE  tamanio_en_bloques(nuevo - t) \in {0, 1}
<1>1. BLOCK_SIZE \in Nat \ {0}
  BY DialFsAssumption
<1>2. DEFINE d == t - nuevo
             c == d \div BLOCK_SIZE
<1>3. d \in Int /\ d < BLOCK_SIZE /\ d > -BLOCK_SIZE /\ nuevo - t = -d
  BY <1>1
<1>4. c \in Int /\ d >= BLOCK_SIZE * c /\ d < BLOCK_SIZE * c + BLOCK_SIZE
  BY <1>1, <1>3, SMT
<1> HIDE DEF c
<1>5. BLOCK_SIZE * c < BLOCK_SIZE /\ BLOCK_SIZE * c > -2 * BLOCK_SIZE
  BY <1>1, <1>3, <1>4
<1>6. c < 1 /\ c > -2
  BY <1>1, <1>4, <1>5, SMT
<1>7. -c \in {0, 1}
  BY <1>4, <1>6
<1> HIDE DEF d
<1>8. -(nuevo - t) = d
  BY <1>3
<1> QED  BY <1>7, <1>8 DEF tamanio_en_bloques, c

-----------------------------------------------------------------------------
(* What the loop of a compaction counts *)

LEMMA FcbTipo ==
  ASSUME NEW l \in Seq(Fcb), NEW i \in 1..Len(l)
  PROVE  /\ l[i] \in Fcb
         /\ l[i].nombre \in Nombres
         /\ l[i].tamanio \in Nat
         /\ l[i].tamanio_en_bloques \in Nat
         /\ l[i].bloque \in Bits \union {SinBloque}
<1>1. l[i] \in Fcb
  BY ElementOfSeq
<1> QED  BY <1>1 DEF Fcb

LEMMA EnRecorridos ==
  ASSUME NEW l, NEW n, NEW i, NEW x
  PROVE  x \in Recorridos(l, n, i) <=>
           /\ x = <<x[1], x[2]>>
           /\ x[1] \in 1..(i - 1)
           /\ l[x[1]].nombre # n
           /\ x[2] \in 1..l[x[1]].tamanio_en_bloques
  BY DEF Recorridos

LEMMA RecorridosFinitos ==
  ASSUME NEW l \in Seq(Fcb), NEW n, NEW i \in 1..(Len(l) + 1)
  PROVE  /\ IsFiniteSet(Recorridos(l, n, i))
         /\ BloquesAntes(l, n, i) \in Nat
<1> DEFINE D == {h \in 1..(i - 1) : l[h].nombre # n}
           P(j) == {j} \X (1..l[j].tamanio_en_bloques)
           F == [j \in D |-> P(j)]
<1>1. IsFiniteSet(D)
  <2>1. IsFiniteSet(1..(i - 1))
    BY FS_Interval, 1 \in Int, i - 1 \in Int
  <2> HIDE DEF P
  <2>2. D \in SUBSET (1..(i - 1))
    OBVIOUS
  <2> QED  BY <2>1, <2>2, FS_Subset
<1>2. IsFiniteSet(Range(F))
  <2>1. F \in [D -> Range(F)]
    BY DEF Range
  <2> HIDE DEF F, D
  <2>2. F \in Surjection(D, Range(F))
    BY <2>1, Fun_RangeProperties
  <2> QED
    BY <1>1, <2>2, FS_Surjection
<1>3. \A j \in D : IsFiniteSet(P(j))
  <2> SUFFICES ASSUME NEW j \in D PROVE IsFiniteSet(P(j))
    OBVIOUS
  <2>1. l[j].tamanio_en_bloques \in Nat
    BY FcbTipo, j \in 1..Len(l)
  <2>2. IsFiniteSet({j})
    BY FS_Singleton, Zenon
  <2>3. IsFiniteSet(1..l[j].tamanio_en_bloques)
    <3> DEFINE m == l[j].tamanio_en_bloques
    <3>1. m \in Int
      BY <2>1
    <3> HIDE DEF m
    <3>2. IsFiniteSet(1..m)
      BY <3>1, FS_Interval, 1 \in Int
    <3> QED  BY <3>2 DEF m
  <2> QED
    BY <2>2, <2>3, FS_Product
<1>4. Recorridos(l, n, i) = UNION Range(F)
  BY DEF Recorridos, Range
<1>5. \A T \in Range(F) : IsFiniteSet(T)
  BY <1>3 DEF Range
<1>6. IsFiniteSet(Recorridos(l, n, i))
  BY <1>2, <1>4, <1>5, FS_UNION
<1> QED
  BY <1>6, FS_CardinalityType DEF BloquesAntes

\* The count starts at zero, grows by the blocks of each FCB but the truncated
\* one's, and so never goes back.
LEMMA Cuenta ==
  ASSUME NEW l \in Seq(Fcb), NEW n
  PROVE  /\ BloquesAntes(l, n, 1) = 0
         /\ \A i \in 1..Len(l) :
              BloquesAntes(l, n, i + 1) =
                BloquesAntes(l, n, i)
                + (IF l[i].nombre = n THEN 0 ELSE l[i].tamanio_en_bloques)
         /\ \A i, j \in 1..(Len(l) + 1) :
              i <= j => BloquesAntes(l, n, i) <= BloquesAntes(l, n, j)
<1>1. BloquesAntes(l, n, 1) = 0
  <2>1. Recorridos(l, n, 1) = {}
    BY EnRecorridos
  <2> QED
    BY <2>1, FS_EmptySet DEF BloquesAntes
<1>2. ASSUME NEW i \in 1..Len(l)
      PROVE  BloquesAntes(l, n, i + 1) =
               BloquesAntes(l, n, i)
               + (IF l[i].nombre = n THEN 0 ELSE l[i].tamanio_en_bloques)
  <2> DEFINE S == Recorridos(l, n, i)
             P == {i} \X (1..l[i].tamanio_en_bloques)
  <2>1. i \in 1..(Len(l) + 1) /\ i + 1 \in 1..(Len(l) + 1)
    OBVIOUS
  <2>2. l[i].tamanio_en_bloques \in Nat
    BY FcbTipo
  <2>3. CASE l[i].nombre = n
    <3>1. \A x : x \in Recorridos(l, n, i + 1) <=> x \in S
      <4> SUFFICES ASSUME NEW x
                   PROVE  x \in Recorridos(l, n, i + 1) <=> x \in S
        OBVIOUS
      <4>1. (x[1] \in 1..(i + 1 - 1) /\ l[x[1]].nombre # n) <=>
              (x[1] \in 1..(i - 1) /\ l[x[1]].nombre # n)
        BY <2>3
      <4> QED  BY <4>1, EnRecorridos
    <3>2. Recorridos(l, n, i + 1) = S
      BY <3>1
    <3> QED
      BY <3>2, <2>3, <2>1, RecorridosFinitos DEF BloquesAntes
  <2>4. CASE l[i].nombre # n
    <3>1. \A x : x \in Recorridos(l, n, i + 1) <=> x \in S \union P
      <4> SUFFICES ASSUME NEW x
                   PROVE  x \in Recorridos(l, n, i + 1) <=> x \in S \union P
        OBVIOUS
      <4>1. x[1] \in 1..(i + 1 - 1) <=> (x[1] \in 1..(i - 1) \/ x[1] = i)
        OBVIOUS
      <4>2. x \in P <=> /\ x = <<x[1], x[2]>> /\ x[1] = i
                        /\ x[2] \in 1..l[i].tamanio_en_bloques
        OBVIOUS
      <4> QED  BY <4>1, <4>2, <2>4, EnRecorridos
    <3>2. Recorridos(l, n, i + 1) = S \union P
      BY <3>1
    <3>3. S \cap P = {}
      <4> SUFFICES ASSUME NEW x \in S, x \in P PROVE FALSE
        OBVIOUS
      <4>1. x[1] \in 1..(i - 1) /\ x[1] = i
        BY EnRecorridos
      <4> QED  BY <4>1
    <3>4. IsFiniteSet(S) /\ BloquesAntes(l, n, i) \in Nat
      BY <2>1, RecorridosFinitos
    <3>5. IsFiniteSet(P) /\ Cardinality(P) = l[i].tamanio_en_bloques
      <4>1. IsFiniteSet({i}) /\ Cardinality({i}) = 1
        BY FS_Singleton, Zenon
      <4> DEFINE m == l[i].tamanio_en_bloques
      <4>2. m \in Nat
        BY <2>2
      <4> HIDE DEF m
      <4>3. IsFiniteSet(1..m) /\ Cardinality(1..m) = m
        BY <4>2, FS_Interval, 1 \in Int, m \in Int
      <4>4. IsFiniteSet({i} \X (1..m)) /\ Cardinality({i} \X (1..m)) = 1 * m
        BY <4>1, <4>3, FS_Product
      <4> QED
        BY <4>2, <4>4 DEF m
    <3>6. Cardinality(S \union P) = Cardinality(S) + Cardinality(P) - 0
      <4> HIDE DEF S, P
      <4> QED
        BY <3>3, <3>4, <3>5, FS_Union, FS_EmptySet
    <3>7. BloquesAntes(l, n, i) = Cardinality(S)
      BY DEF BloquesAntes
    <3>8. BloquesAntes(l, n, i + 1) = Cardinality(S \union P)
      BY <3>2 DEF BloquesAntes
    <3> HIDE DEF P, S
    <3> QED
      BY <3>4, <3>5, <3>6, <3>7, <3>8, <2>2, <2>4
  <2> QED  BY <2>3, <2>4
<1>3. ASSUME NEW i \in 1..(Len(l) + 1), NEW j \in 1..(Len(l) + 1), i <= j
      PROVE  BloquesAntes(l, n, i) <= BloquesAntes(l, n, j)
  <2>1. \A x : x \in Recorridos(l, n, i) => x \in Recorridos(l, n, j)
    <3> SUFFICES ASSUME NEW x, x \in Recorridos(l, n, i)
                 PROVE  x \in Recorridos(l, n, j)
      OBVIOUS
    <3>1. x[1] \in 1..(i - 1)
      BY EnRecorridos
    <3>2. x[1] \in 1..(j - 1)
      BY <1>3, <3>1
    <3> QED  BY <3>2, EnRecorridos
  <2> QED
    BY <2>1, RecorridosFinitos, FS_Subset DEF BloquesAntes
<1> QED
  BY <1>1, <1>2, <1>3

\* Two FCBs apart from the truncated one end up one after the other.
LEMMA UnoTrasOtro ==
  ASSUME NEW l \in Seq(Fcb), NEW n, NEW i \in 1..Len(l), NEW j \in 1..(Len(l) + 1),
         i < j, l[i].nombre # n
  PROVE  BloquesAntes(l, n, i) + l[i].tamanio_en_bloques <= BloquesAntes(l, n, j)
<1>1. BloquesAntes(l, n, i + 1) = BloquesAntes(l, n, i) + l[i].tamanio_en_bloques
  BY Cuenta
<1>2. BloquesAntes(l, n, i + 1) <= BloquesAntes(l, n, j)
  <2> PICK k \in 1..(Len(l) + 1) : k = i + 1
    OBVIOUS
  <2>1. k <= j
    OBVIOUS
  <2> QED  BY <2>1, Cuenta
<1> QED  BY <1>1, <1>2

\* Every block the loop counts is one of an FCB.
LEMMA Cubiertos ==
  ASSUME NEW l \in Seq(Fcb), NEW n, NEW b \in 0..(BloquesDeOtros(l, n) - 1)
  PROVE  \E i \in 1..Len(l) :
           /\ l[i].nombre # n
           /\ b \in Tramo(BloquesAntes(l, n, i), l[i].tamanio_en_bloques)
<1> DEFINE A(i) == BloquesAntes(l, n, i)
           S == {k \in Nat : k \in 1..(Len(l) + 1) /\ A(k) > b}
<1>1. \A i \in 1..(Len(l) + 1) : A(i) \in Nat
  BY RecorridosFinitos
<1>2. Len(l) + 1 \in S
  BY <1>1 DEF BloquesDeOtros
<1> DEFINE Menores == OpToRel(<, Nat)
<1>3. PICK k \in S : \A m \in S : ~(m < k)
  <2>1. IsWellFoundedOn(Menores, Nat)
    BY NatLessThanWellFounded
  <2>2. PICK k \in S : \A m \in S : ~(<<m, k>> \in Menores)
    BY <1>2, <2>1, WFMin
  <2> QED
    BY <2>2 DEF OpToRel
<1>4. k # 1
  BY <1>3, Cuenta
<1>5. k - 1 \in 1..Len(l) /\ k - 1 \in 1..(Len(l) + 1)
  BY <1>3, <1>4
<1>6. A(k - 1) <= b
  BY <1>1, <1>3, <1>5
<1>7. A(k) = A(k - 1) + (IF l[k - 1].nombre = n THEN 0 ELSE l[k - 1].tamanio_en_bloques)
  <2> PICK i \in 1..Len(l) : i = k - 1
    BY <1>5
  <2>1. A(i + 1) = A(i) + (IF l[i].nombre = n THEN 0 ELSE l[i].tamanio_en_bloques)
    BY Cuenta
  <2> QED  BY <2>1, <1>5
<1>8. l[k - 1].tamanio_en_bloques \in Nat
  BY <1>5, FcbTipo
<1> HIDE DEF A
<1>9. l[k - 1].nombre # n /\ b \in Tramo(A(k - 1), l[k - 1].tamanio_en_bloques)
  BY <1>1, <1>3, <1>5, <1>6, <1>7, <1>8 DEF Tramo
<1> QED  BY <1>5, <1>9 DEF A

-----------------------------------------------------------------------------
(* The list of FCBs *)

LEMMA MinMaxDeUno ==
  ASSUME NEW i \in Int
  PROVE  Min({i}) = i /\ Max({i}) = i
<1>1. \E x \in {i} : \A y \in {i} : x <= y
  OBVIOUS
<1>2. \E x \in {i} : \A y \in {i} : x >= y
  OBVIOUS
<1> QED  BY <1>1, <1>2 DEF Min, Max

\* The only FCB of n is at i.
Unica(l, n, i) ==
  /\ i \in 1..Len(l) /\ l[i].nombre = n
  /\ \A j \in 1..Len(l) : l[j].nombre = n => j = i

LEMMA PosicionUnica ==
  ASSUME NEW l \in Seq(Fcb), NEW i, NEW n, Unica(l, n, i)
  PROVE  Apariciones(l, n) = {i} /\ Posicion(l, n) = i /\ Max(Apariciones(l, n)) = i
<1>1. Apariciones(l, n) = {i} /\ i \in Int
  BY DEF Apariciones, Unica
<1> QED  BY <1>1, MinMaxDeUno DEF Posicion

LEMMA PosicionHallada ==
  ASSUME NEW l \in Seq(Fcb), UnFcb(l), NEW n, Apariciones(l, n) # {}
  PROVE  /\ Posicion(l, n) \in 1..Len(l)
         /\ l[Posicion(l, n)].nombre = n
         /\ l[Posicion(l, n)] \in Fcb
<1> PICK i \in DOMAIN l : l[i].nombre = n
  BY DEF Apariciones
<1>1. i \in 1..Len(l) /\ Unica(l, n, i)
  BY DEF UnFcb, Unica
<1> QED  BY <1>1, PosicionUnica, FcbTipo

LEMMA OpTipo ==
  ASSUME TypeOK
  PROVE  /\ op.pc \in {"reposo", "asignar", "marcar", "quitar", "guardar", "guardar_mudado"}
         /\ op.pc = "reposo" <=> op = Reposo
         /\ op # Reposo => op.nombre \in Nombres
         /\ op.pc \in {"asignar", "marcar"} =>
              /\ op.indice \in Bits
              /\ op = [pc |-> op.pc, nombre |-> op.nombre, indice |-> op.indice]
         /\ op.pc \in {"guardar", "guardar_mudado"} => op.nuevo \in Nat
<1>1. CASE op = Reposo
  BY <1>1 DEF Reposo
<1>2. CASE op \in [pc: {"asignar", "marcar"}, nombre: Nombres, indice: Bits]
  BY <1>2 DEF Reposo
<1>3. CASE op \in [pc: {"quitar"}, nombre: Nombres, indice: Nat]
  BY <1>3 DEF Reposo
<1>4. CASE op \in [pc: {"guardar", "guardar_mudado"}, nombre: Nombres, nuevo: Nat]
  BY <1>4 DEF Reposo
<1> QED  BY <1>1, <1>2, <1>3, <1>4 DEF TypeOK

LEMMA CeroEsBit == 0 \in Bits /\ Bits \subseteq Nat
  BY BitsSonIntervalo

LEMMA FcbLeidoTipo ==
  ASSUME TypeOK, NEW n \in Nombres, metadata[n].tamanio \in Nat
  PROVE  FcbLeido(n) \in Fcb
<1>1. metadata[n].bloque \in Bits \union {SinBloque}
  BY DEF TypeOK
<1>2. tamanio_en_bloques(metadata[n].tamanio) \in Nat
  BY TamanioEnBloques
<1> QED  BY <1>1, <1>2, CeroEsBit DEF FcbLeido, Fcb

\* Between requests a file has its FCB, as in its metadata file, and a block.
LEMMA EnReposo ==
  ASSUME TypeOK, DiscoBien, op = Reposo, NEW n \in Nombres, Esta(n)
  PROVE  /\ metadata[n].tamanio \in Nat
         /\ metadata[n].bloque \in Bits
         /\ n \in Creados
         /\ FcbLeido(n) = [nombre |-> n, bloque |-> metadata[n].bloque,
                           tamanio |-> metadata[n].tamanio,
                           tamanio_en_bloques |-> tamanio_en_bloques(metadata[n].tamanio)]
         /\ FcbLeido(n) \in Fcb
         /\ Reservados(n) = Tramo(metadata[n].bloque,
                                  tamanio_en_bloques(metadata[n].tamanio))
<1>1. \A pcs : "reposo" \notin pcs => ~EnCurso(pcs, n)
  BY DEF EnCurso, Reposo
<1>2. metadata[n].tamanio \in Nat /\ metadata[n].bloque # SinBloque
  BY <1>1 DEF DiscoBien, MetadataBien
<1>3. metadata[n].bloque \in Bits
  BY <1>2 DEF TypeOK
<1>4. FcbLeido(n) \in Fcb
  BY <1>2, FcbLeidoTipo
<1>5. ~EnCurso({"guardar_mudado"}, n) /\ ~EnCurso({"guardar", "guardar_mudado"}, n)
  BY <1>1
<1> QED
  BY <1>2, <1>3, <1>4, <1>5 DEF Creados, FcbLeido, Reservados, Donde, Cuantos

\* The request finds the FCB of its file, loaded if need be.
PedidoBien(l, n) ==
  /\ l \in Seq(Fcb)
  /\ UnFcb(l) /\ FcbsFieles(l)
  /\ Esta(n) /\ n \in Creados
  /\ Apariciones(l, n) # {}
  /\ Posicion(l, n) \in 1..Len(l)
  /\ l[Posicion(l, n)] = FcbLeido(n)
  /\ \A i \in 1..Len(l) : l[i].nombre = n => i = Posicion(l, n)

LEMMA ConFcbBien ==
  ASSUME TypeOK, DiscoBien, NEW n \in Nombres, Pedible(n)
  PROVE  PedidoBien(ConFcb(n), n)
<1>0. op = Reposo
  BY DEF Pedible, Libre
<1>1. /\ lista_fat \in Seq(Fcb) /\ UnFcb(lista_fat) /\ FcbsFieles(lista_fat)
  BY DEF TypeOK, DiscoBien
<1>2. Esta(n)
  BY <1>1 DEF Pedible, UnFcb, Apariciones
<1>3. n \in Creados /\ FcbLeido(n) \in Fcb /\ FcbLeido(n).nombre = n
  BY <1>0, <1>2, EnReposo
<1>4. \A m : ~EnCurso({"asignar", "guardar_mudado"}, m)
  BY <1>0 DEF EnCurso, Reposo
<1>5. CASE Apariciones(lista_fat, n) # {}
  <2>1. ConFcb(n) = lista_fat
    BY <1>5 DEF ConFcb
  <2>2. /\ Posicion(lista_fat, n) \in 1..Len(lista_fat)
        /\ lista_fat[Posicion(lista_fat, n)].nombre = n
    BY <1>1, <1>5, PosicionHallada
  <2>3. lista_fat[Posicion(lista_fat, n)] = FcbLeido(n)
    BY <1>1, <1>4, <2>2 DEF FcbsFieles
  <2>4. \A i \in 1..Len(lista_fat) : lista_fat[i].nombre = n => i = Posicion(lista_fat, n)
    BY <1>1, <2>2 DEF UnFcb
  <2> QED
    BY <1>1, <1>2, <1>3, <1>5, <2>1, <2>2, <2>3, <2>4 DEF PedidoBien
<1>6. CASE Apariciones(lista_fat, n) = {}
  <2> DEFINE l == Append(lista_fat, FcbLeido(n))
             k == Len(lista_fat) + 1
  <2>1. ConFcb(n) = l
    BY <1>6 DEF ConFcb
  <2>2. /\ l \in Seq(Fcb) /\ Len(l) = k /\ l[k] = FcbLeido(n) /\ k \in 1..Len(l)
        /\ \A i \in 1..Len(lista_fat) : l[i] = lista_fat[i]
        /\ DOMAIN l = 1..k
    BY <1>1, <1>3
  <2>3. \A i \in 1..Len(lista_fat) : l[i].nombre # n
    BY <1>6, <2>2 DEF Apariciones
  <2>4. UnFcb(l)
    <3>1. \A i, j \in 1..k : l[i].nombre = l[j].nombre => i = j
      BY <1>1, <1>3, <2>2, <2>3 DEF UnFcb
    <3>2. \A i \in 1..k : Esta(l[i].nombre)
      BY <1>1, <1>2, <1>3, <2>2 DEF UnFcb
    <3> QED  BY <2>2, <3>1, <3>2 DEF UnFcb
  <2>5. FcbsFieles(l)
    <3>1. \A i \in 1..k : l[i] = FcbLeido(l[i].nombre)
      BY <1>1, <1>3, <1>4, <2>2 DEF FcbsFieles
    <3> QED  BY <2>2, <3>1 DEF FcbsFieles
  <2>6. Apariciones(l, n) = {k} /\ Posicion(l, n) = k
    <3>1. l[k].nombre = n /\ \A j \in 1..Len(l) : l[j].nombre = n => j = k
      BY <1>3, <2>2, <2>3
    <3> PICK q, h : q = l /\ h = k
      OBVIOUS
    <3>2. q \in Seq(Fcb) /\ Unica(q, n, h)
      BY <2>2, <3>1 DEF Unica
    <3>3. Apariciones(q, n) = {h} /\ Posicion(q, n) = h
      BY <3>2, PosicionUnica
    <3> QED  BY <3>3
  <2> HIDE DEF l
  <2> QED
    BY <1>2, <1>3, <2>1, <2>2, <2>3, <2>4, <2>5, <2>6 DEF PedidoBien
<1> QED  BY <1>5, <1>6

-----------------------------------------------------------------------------
(* What the invariant says to the programs *)

\* The FCB a request would find, whatever is halfway through
LEMMA FcbDeArchivo ==
  ASSUME TypeOK, DiscoBien, NEW n \in Creados
  PROVE  /\ metadata[n].tamanio \in Nat
         /\ FcbDe(n).bloque = Donde(n)
         /\ FcbDe(n).tamanio =
              IF EnCurso({"guardar_mudado"}, n) THEN op.nuevo ELSE metadata[n].tamanio
         /\ FcbDe(n).tamanio_en_bloques =
              IF EnCurso({"guardar"}, n) THEN 1 ELSE Cuantos(n)
         /\ Donde(n) \in Bits
         /\ Cuantos(n) \in Nat \ {0}
<1>1. /\ Esta(n) /\ metadata[n].bloque # SinBloque /\ n \in Nombres
  BY DEF Creados
<1>2. metadata[n].tamanio \in Nat /\ metadata[n].bloque \in Bits
  BY <1>1 DEF TypeOK, DiscoBien, MetadataBien
<1>3. FcbLeido(n) = [nombre |-> n, bloque |-> metadata[n].bloque,
                     tamanio |-> metadata[n].tamanio,
                     tamanio_en_bloques |-> tamanio_en_bloques(metadata[n].tamanio)]
  BY <1>1 DEF FcbLeido
<1>4. ~EnCurso({"asignar"}, n)
  <2> SUFFICES ASSUME EnCurso({"asignar"}, n) PROVE FALSE
    OBVIOUS
  <2>1. op.pc = "asignar" /\ op.nombre = n /\ op # Reposo
    BY DEF EnCurso, Reposo
  <2>2. metadata[n] = [bloque |-> SinBloque, tamanio |-> 0]
    BY <2>1 DEF DiscoBien, Pendiente
  <2> QED  BY <1>1, <2>2
<1>5. lista_fat \in Seq(Fcb) /\ UnFcb(lista_fat) /\ FcbsFieles(lista_fat)
  BY DEF TypeOK, DiscoBien
<1>6. CASE EnCurso({"guardar_mudado"}, n)
  <2> DEFINE f == lista_fat[Posicion(lista_fat, n)]
  <2>1. op.pc = "guardar_mudado" /\ op.nombre = n /\ op # Reposo /\ op.nuevo \in Nat
    BY <1>6, OpTipo DEF EnCurso, Reposo
  <2>2. /\ Apariciones(lista_fat, n) # {} /\ f.bloque \in Bits /\ f.tamanio = op.nuevo
        /\ f.tamanio_en_bloques = tamanio_en_bloques(op.nuevo)
    BY <2>1 DEF DiscoBien, Pendiente
  <2>3. FcbDe(n) = f
    BY <2>2 DEF FcbDe
  <2>4. ~EnCurso({"guardar"}, n) /\ EnCurso({"guardar", "guardar_mudado"}, n)
    BY <2>1 DEF EnCurso
  <2>5. Donde(n) = f.bloque /\ Cuantos(n) = tamanio_en_bloques(op.nuevo)
    BY <1>6, <2>4 DEF Donde, Cuantos
  <2>6. tamanio_en_bloques(op.nuevo) \in Nat \ {0}
    BY <2>1, TamanioEnBloques
  <2> HIDE DEF f
  <2> QED
    BY <1>2, <1>6, <2>2, <2>3, <2>4, <2>5, <2>6
<1>7. CASE ~EnCurso({"guardar_mudado"}, n)
  <2>1. FcbDe(n) = FcbLeido(n)
    <3>1. CASE Apariciones(lista_fat, n) = {}
      BY <3>1 DEF FcbDe
    <3>2. CASE Apariciones(lista_fat, n) # {}
      <4>1. /\ Posicion(lista_fat, n) \in DOMAIN lista_fat
            /\ lista_fat[Posicion(lista_fat, n)].nombre = n
        BY <1>5, <3>2, PosicionHallada
      <4>2. ~EnCurso({"asignar", "guardar_mudado"}, n)
        BY <1>4, <1>7 DEF EnCurso
      <4> QED
        BY <1>5, <3>2, <4>1, <4>2 DEF FcbDe, FcbsFieles
    <3> QED  BY <3>1, <3>2
  <2>2. Donde(n) = metadata[n].bloque
    BY <1>7 DEF Donde
  <2>3. CASE EnCurso({"guardar"}, n)
    <3>1. op.pc = "guardar" /\ op.nombre = n /\ op # Reposo /\ op.nuevo \in Nat
      BY <2>3, OpTipo DEF EnCurso, Reposo
    <3>2. tamanio_en_bloques(metadata[n].tamanio) = 1
      BY <3>1 DEF DiscoBien, Pendiente
    <3>3. Cuantos(n) = tamanio_en_bloques(op.nuevo)
      BY <3>1 DEF Cuantos, EnCurso
    <3> QED
      BY <1>2, <1>3, <1>7, <2>1, <2>2, <2>3, <3>1, <3>2, <3>3, TamanioEnBloques
  <2>4. CASE ~EnCurso({"guardar"}, n)
    <3>1. Cuantos(n) = tamanio_en_bloques(metadata[n].tamanio)
      BY <1>7, <2>4 DEF Cuantos, EnCurso
    <3> QED
      BY <1>2, <1>3, <1>7, <2>1, <2>2, <2>4, <3>1, TamanioEnBloques
  <2> QED  BY <2>3, <2>4
<1> QED  BY <1>6, <1>7

LEMMA BloquesDeReservados ==
  ASSUME TypeOK, DiscoBien, NEW n \in Creados
  PROVE  /\ BloquesDe(n) \subseteq Reservados(n)
         /\ op = Reposo => BloquesDe(n) = Reservados(n)
<1>1. /\ FcbDe(n).bloque = Donde(n) /\ Donde(n) \in Nat
      /\ Cuantos(n) \in Nat \ {0}
      /\ FcbDe(n).tamanio_en_bloques = IF EnCurso({"guardar"}, n) THEN 1 ELSE Cuantos(n)
  BY FcbDeArchivo, CeroEsBit
<1>2. op = Reposo => ~EnCurso({"guardar"}, n)
  BY DEF EnCurso, Reposo
<1> QED
  BY <1>1, <1>2 DEF BloquesDe, Reservados, Tramo

LEMMA DiscoDisjunto ==
  ASSUME SinBitsDeMas, TypeOK, DiscoBien
  PROVE  ExtensionesDisjuntas
<1> SUFFICES ASSUME NEW m \in Creados
             PROVE  /\ BloquesDe(m) \subseteq 0..(BLOCK_COUNT - 1)
                    /\ \A n \in Creados \ {m} : BloquesDe(m) \intersect BloquesDe(n) = {}
  BY DEF ExtensionesDisjuntas
<1>1. \A n \in Creados : BloquesDe(n) \subseteq Reservados(n)
  BY BloquesDeReservados
<1>2. Reservados(m) \subseteq Bits
      /\ \A n \in Creados \ {m} : Reservados(m) \intersect Reservados(n) = {}
  BY DEF DiscoBien, Separados
<1> QED
  BY <1>1, <1>2, BitsExactos

LEMMA DiscoExacto ==
  ASSUME TypeOK, DiscoBien
  PROVE  BitmapExacto
<1> SUFFICES ASSUME op = Reposo, NEW b \in Bits
             PROVE  bitmap[b] <=> \E m \in Creados : b \in BloquesDe(m)
  BY DEF BitmapExacto
<1>1. \A m : ~EnCurso({"marcar", "quitar"}, m)
  BY DEF EnCurso, Reposo
<1>2. \A m \in Creados : BloquesDe(m) = Reservados(m)
  BY BloquesDeReservados
<1>3. bitmap[b] <=> \E m \in Creados : b \in Reservados(m)
  BY <1>1 DEF DiscoBien, BitmapAlDia
<1> QED
  BY <1>2, <1>3

LEMMA DiscoFiel ==
  ASSUME TypeOK, DiscoBien
  PROVE  MetadataFiel
<1> SUFFICES ASSUME op = Reposo, NEW i \in DOMAIN lista_fat
             PROVE  /\ Esta(lista_fat[i].nombre)
                    /\ FcbLeido(lista_fat[i].nombre) = lista_fat[i]
  BY DEF MetadataFiel
<1>1. ~EnCurso({"asignar", "guardar_mudado"}, lista_fat[i].nombre)
  BY DEF EnCurso, Reposo
<1> QED
  BY <1>1 DEF DiscoBien, UnFcb, FcbsFieles

-----------------------------------------------------------------------------
(* Steps *)

DInv == TypeOK /\ DiscoBien

\* A file no TRUNCATE is about keeps its blocks.
LEMMA MismosBloques ==
  ASSUME NEW m, metadata'[m] = metadata[m],
         ~EnCurso({"guardar", "guardar_mudado"}, m),
         ~EnCurso({"guardar", "guardar_mudado"}, m)'
  PROVE  /\ Reservados(m)' = Reservados(m)
         /\ (m \in Creados)' <=> m \in Creados
<1>1. /\ ~EnCurso({"guardar_mudado"}, m) /\ ~EnCurso({"guardar_mudado"}, m)'
  BY DEF EnCurso
<1>2. Donde(m)' = Donde(m) /\ Cuantos(m)' = Cuantos(m)
  BY <1>1 DEF Donde, Cuantos
<1>3. Reservados(m)' = Reservados(m)
  BY <1>2 DEF Reservados
<1>4. (m \in Creados)' <=> m \in Creados
  BY DEF Creados, Esta
<1> QED  BY <1>3, <1>4

\* A request that changes no more than the list, or nothing.
LEMMA SoloLista ==
  ASSUME DInv, op = Reposo, op' = Reposo, UNCHANGED <<metadata, bitmap>>,
         caido' \in {"", "archivo inexistente"},
         bloques' \in [Bytes -> {Cero} \union (Nombres \X Nat)],
         (lista_fat \in Seq(Fcb) /\ UnFcb(lista_fat) /\ FcbsFieles(lista_fat))'
  PROVE  DInv'
<1>1. TypeOK'
  BY DEF DInv, TypeOK
<1>2. \A m, pcs : "reposo" \notin pcs => ~EnCurso(pcs, m) /\ ~EnCurso(pcs, m)'
  BY DEF EnCurso, Reposo
<1>3. \A m : /\ Reservados(m)' = Reservados(m)
             /\ (m \in Creados)' <=> m \in Creados
  BY <1>2, MismosBloques
<1>4. Creados' = Creados
  BY DEF Creados, Esta
<1>5. MetadataBien'
  BY <1>2 DEF DInv, DiscoBien, MetadataBien, Esta
<1>6. Separados'
  BY <1>3, <1>4 DEF DInv, DiscoBien, Separados
<1>7. BitmapAlDia'
  BY <1>2, <1>3, <1>4 DEF DInv, DiscoBien, BitmapAlDia
<1>8. Pendiente'
  BY DEF Pendiente
<1> QED
  BY <1>1, <1>5, <1>6, <1>7, <1>8 DEF DInv, DiscoBien

LEMMA PasoCrearSinLugar ==
  ASSUME DInv, NEW n \in Nombres, CrearSinLugar(n)
  PROVE  DInv'
<1>1. op = Reposo /\ UNCHANGED dvars
  BY DEF CrearSinLugar, Libre
<1>2. (UnFcb(lista_fat) /\ FcbsFieles(lista_fat))'
  BY <1>1 DEF DInv, DiscoBien, dvars, UnFcb, FcbsFieles, Esta, EnCurso, FcbLeido
<1> QED
  BY <1>1, <1>2, SoloLista DEF DInv, TypeOK, dvars

LEMMA PasoPedirInexistente ==
  ASSUME DInv, NEW n \in Nombres, PedirInexistente(n)
  PROVE  DInv'
<1>1. op = Reposo /\ UNCHANGED <<lista_fat, metadata, bitmap, bloques, op>>
      /\ caido' = "archivo inexistente"
  BY DEF PedirInexistente, Libre
<1>2. (UnFcb(lista_fat) /\ FcbsFieles(lista_fat))'
  BY <1>1 DEF DInv, DiscoBien, UnFcb, FcbsFieles, Esta, EnCurso, FcbLeido
<1> QED
  BY <1>1, <1>2, SoloLista DEF DInv, TypeOK

\* The list of a request, seen after a step that keeps the metadata files.
LEMMA ListaDespues ==
  ASSUME NEW n, NEW l, PedidoBien(l, n), op = Reposo, UNCHANGED metadata, lista_fat' = l
  PROVE  (lista_fat \in Seq(Fcb) /\ UnFcb(lista_fat))'
         /\ \A i \in DOMAIN l : l[i] = FcbLeido(l[i].nombre)'
<1>1. \A m : ~EnCurso({"asignar", "guardar_mudado"}, m)
  BY DEF EnCurso, Reposo
<1>2. \A m : FcbLeido(m)' = FcbLeido(m) /\ (Esta(m)' <=> Esta(m))
  BY DEF FcbLeido, Esta
<1> QED
  BY <1>1, <1>2 DEF PedidoBien, UnFcb, FcbsFieles

LEMMA PasoLeer ==
  ASSUME DInv, NEW n \in Nombres, Leer(n)
  PROVE  DInv'
<1>1. /\ op = Reposo /\ Pedible(n) /\ lista_fat' = ConFcb(n)
      /\ UNCHANGED <<metadata, bitmap, bloques, op, caido>>
  BY DEF Leer, Pedible, Libre
<1>2. PedidoBien(ConFcb(n), n)
  BY <1>1, ConFcbBien DEF DInv
<1>3. (lista_fat \in Seq(Fcb) /\ UnFcb(lista_fat) /\ FcbsFieles(lista_fat))'
  BY <1>1, <1>2, ListaDespues DEF FcbsFieles
<1> QED
  BY <1>1, <1>3, SoloLista DEF DInv, TypeOK

LEMMA PasoEscribir ==
  ASSUME DInv, NEW n \in Nombres, NEW puntero \in 0..(MaxTamanio - 1),
         NEW tamanio \in Largos, Escribir(n, puntero, tamanio)
  PROVE  DInv'
<1> DEFINE b0 == DondeEscribe(ConFcb(n)[Posicion(ConFcb(n), n)], puntero)
<1>1. /\ op = Reposo /\ Pedible(n) /\ lista_fat' = ConFcb(n)
      /\ UNCHANGED <<metadata, bitmap, op, caido>>
      /\ bloques' = [b \in Bytes |->
                       IF b \in Tramo(b0, tamanio) THEN Dato(n, puntero + (b - b0))
                       ELSE bloques[b]]
  BY DEF Escribir, Pedible, Libre
<1>2. PedidoBien(ConFcb(n), n)
  BY <1>1, ConFcbBien DEF DInv
<1>3. (lista_fat \in Seq(Fcb) /\ UnFcb(lista_fat) /\ FcbsFieles(lista_fat))'
  BY <1>1, <1>2, ListaDespues DEF FcbsFieles
<1>4. b0 \in Int /\ puntero \in Nat /\ MaxTamanio \in Nat /\ tamanio \in Nat
  <2> DEFINE f == ConFcb(n)[Posicion(ConFcb(n), n)]
  <2>1. f = FcbLeido(n) /\ Esta(n)
    BY <1>2 DEF PedidoBien
  <2>2. f.bloque \in Int
    <3>1. f.bloque = metadata[n].bloque /\ metadata[n].bloque \in Bits
      BY <1>1, <2>1, EnReposo DEF DInv
    <3>2. metadata[n].bloque \in Nat
      BY <3>1, CeroEsBit
    <3> QED  BY <3>1, <3>2
  <2>3. puntero \in Nat /\ MaxTamanio \in Nat /\ tamanio \in Nat /\ BLOCK_SIZE \in Nat \ {0}
    BY Constantes
  <2> HIDE DEF f
  <2>4. puntero \div BLOCK_SIZE \in Int
    BY <2>3
  <2>5. DondeEscribe(f, puntero) \in Int
    BY <2>2, <2>3, <2>4 DEF DondeEscribe, Base
  <2> QED  BY <2>3, <2>5 DEF f
<1>5. bloques' \in [Bytes -> {Cero} \union (Nombres \X Nat)]
  <2> SUFFICES ASSUME NEW b \in Bytes
               PROVE  bloques'[b] \in {Cero} \union (Nombres \X Nat)
    BY <1>1
  <2>1. b \in Nat /\ bloques[b] \in {Cero} \union (Nombres \X Nat)
    BY Constantes DEF DInv, TypeOK
  <2> HIDE DEF b0
  <2>2. b \in Tramo(b0, tamanio) => puntero + (b - b0) \in Nat
    BY <1>4, <2>1 DEF Tramo
  <2> QED
    BY <1>1, <2>1, <2>2 DEF Dato
<1> QED
  BY <1>1, <1>3, <1>5, SoloLista DEF DInv, TypeOK

LEMMA PasoReiniciar ==
  ASSUME DInv, SoloDatos, Reiniciar
  PROVE  DInv'
<1>1. /\ op = Reposo /\ lista_fat' = <<>> /\ op' = Reposo /\ caido' = ""
      /\ UNCHANGED <<metadata, bitmap, bloques>>
  BY DEF Reiniciar, SoloDatos
<1>2. (lista_fat \in Seq(Fcb) /\ UnFcb(lista_fat) /\ FcbsFieles(lista_fat))'
  <2>1. DOMAIN <<>> = {} /\ <<>> \in Seq(Fcb)
    BY EmptySeq
  <2> QED
    BY <1>1, <2>1 DEF UnFcb, FcbsFieles
<1> QED
  BY <1>1, <1>2, SoloLista DEF DInv, TypeOK

LEMMA PrimerBitLibre ==
  ASSUME BitsLibres # {}
  PROVE  primer_bit_libre \in Bits /\ ~bitmap[primer_bit_libre]
<1>1. BitsLibres \subseteq Nat
  BY CeroEsBit DEF BitsLibres
<1>2. PICK k \in BitsLibres : \A m \in BitsLibres : ~(m < k)
  <2>1. IsWellFoundedOn(OpToRel(<, Nat), Nat)
    BY NatLessThanWellFounded
  <2>2. PICK k \in BitsLibres : \A m \in BitsLibres : ~(<<m, k>> \in OpToRel(<, Nat))
    BY <1>1, <2>1, WFMin
  <2> QED
    BY <1>1, <2>2 DEF OpToRel
<1>4. \A m \in BitsLibres : k <= m
  BY <1>1, <1>2
<1>5. Min(BitsLibres) \in BitsLibres
  BY <1>4 DEF Min
<1> QED
  BY <1>5 DEF primer_bit_libre, BitsLibres

LEMMA PasoCrear ==
  ASSUME DInv, SoloDatos, NEW n \in Nombres, Crear(n)
  PROVE  DInv'
<1> DEFINE F == [nombre |-> n, bloque |-> SinBloque, tamanio |-> 0, tamanio_en_bloques |-> 1]
           k == Len(lista_fat) + 1
<1>1. /\ op = Reposo /\ ~Esta(n) /\ BitsLibres # {}
      /\ lista_fat' = Append(lista_fat, F)
      /\ metadata' = [metadata EXCEPT ![n] = [bloque |-> SinBloque, tamanio |-> 0]]
      /\ op' = [pc |-> "asignar", nombre |-> n, indice |-> primer_bit_libre]
      /\ UNCHANGED <<bitmap, bloques, caido>>
  BY DEF Crear, Libre, SoloDatos
<1>2. primer_bit_libre \in Bits /\ ~bitmap[primer_bit_libre]
  BY <1>1, PrimerBitLibre
<1>3. /\ lista_fat \in Seq(Fcb) /\ F \in Fcb
      /\ metadata \in [Nombres -> [bloque: Bits \union {SinBloque}, tamanio: Nat \union {Ausente}]]
  BY DEF DInv, TypeOK, Fcb
<1>4. /\ lista_fat' \in Seq(Fcb) /\ Len(lista_fat') = k /\ lista_fat'[k] = F
      /\ DOMAIN lista_fat' = 1..k /\ k \in 1..k
      /\ \A i \in 1..Len(lista_fat) : lista_fat'[i] = lista_fat[i]
      /\ DOMAIN lista_fat = 1..Len(lista_fat) /\ Len(lista_fat) \in Nat
  BY <1>1, <1>3
<1>5. /\ metadata'[n] = [bloque |-> SinBloque, tamanio |-> 0]
      /\ \A m \in Nombres \ {n} : metadata'[m] = metadata[m]
      /\ Esta(n)' /\ \A m \in Nombres \ {n} : Esta(m)' <=> Esta(m)
  BY <1>1, <1>3 DEF Esta, SinArchivo, Ausente
<1>6. \A i \in 1..Len(lista_fat) : /\ lista_fat[i].nombre \in Nombres \ {n}
                                   /\ Esta(lista_fat[i].nombre)
  BY <1>1, <1>3, <1>4, FcbTipo DEF DInv, DiscoBien, UnFcb
<1>7. op'.pc = "asignar" /\ op'.nombre = n /\ op'.indice = primer_bit_libre /\ op.pc = "reposo"
  BY <1>1 DEF Reposo
<1>8. /\ \A m, pcs : EnCurso(pcs, m)' <=> "asignar" \in pcs /\ m = n
      /\ \A m, pcs : "reposo" \notin pcs => ~EnCurso(pcs, m)
  BY <1>7 DEF EnCurso
<1>9. \A m \in Nombres \ {n} : /\ Reservados(m)' = Reservados(m)
                               /\ (m \in Creados)' <=> m \in Creados
  BY <1>5, <1>8, MismosBloques
<1>10. n \notin Creados /\ (n \notin Creados)'
  BY <1>1, <1>5 DEF Creados
<1>11. /\ Creados \subseteq Nombres \ {n} /\ Creados' = Creados
  BY <1>9, <1>10 DEF Creados
<1>t. TypeOK'
  <2>1. op' \in [pc: {"asignar", "marcar"}, nombre: Nombres, indice: Bits]
    BY <1>1, <1>2
  <2>2. metadata' \in [Nombres -> [bloque: Bits \union {SinBloque}, tamanio: Nat \union {Ausente}]]
    BY <1>1, <1>3
  <2> QED
    BY <1>1, <1>4, <2>1, <2>2 DEF DInv, TypeOK
<1>a. UnFcb(lista_fat)'
  <2>1. \A i, j \in 1..k : lista_fat'[i].nombre = lista_fat'[j].nombre => i = j
    <3> SUFFICES ASSUME NEW i \in 1..k, NEW j \in 1..k,
                        lista_fat'[i].nombre = lista_fat'[j].nombre
                 PROVE  i = j
      OBVIOUS
    <3>1. \A h \in 1..k : h \in 1..Len(lista_fat) \/ h = k
      BY <1>4
    <3>2. \A h, g \in 1..Len(lista_fat) : lista_fat[h].nombre = lista_fat[g].nombre => h = g
      BY <1>4 DEF DInv, DiscoBien, UnFcb
    <3> QED
      BY <3>1, <3>2, <1>4, <1>6
  <2>2. \A i \in 1..k : Esta(lista_fat[i].nombre)'
    <3> SUFFICES ASSUME NEW i \in 1..k PROVE Esta(lista_fat[i].nombre)'
      OBVIOUS
    <3>1. CASE i = k
      BY <3>1, <1>4, <1>5
    <3>2. CASE i # k
      BY <3>2, <1>4, <1>5, <1>6, i \in 1..Len(lista_fat)
    <3> QED  BY <3>1, <3>2
  <2> QED
    BY <2>1, <2>2, <1>4 DEF UnFcb
<1>b. FcbsFieles(lista_fat)'
  <2> SUFFICES ASSUME NEW i \in 1..k
               PROVE  \/ EnCurso({"asignar", "guardar_mudado"}, lista_fat[i].nombre)'
                      \/ (lista_fat[i] = FcbLeido(lista_fat[i].nombre))'
    BY <1>4 DEF FcbsFieles
  <2>1. CASE i = k
    BY <2>1, <1>4, <1>8
  <2>2. CASE i # k
    <3>1. i \in 1..Len(lista_fat)
      BY <2>2, <1>4
    <3> DEFINE m == lista_fat[i].nombre
    <3>2. m \in Nombres \ {n} /\ lista_fat'[i] = lista_fat[i]
      BY <3>1, <1>4, <1>6
    <3>3. lista_fat[i] = FcbLeido(m)
      BY <3>1, <1>4, <1>8 DEF DInv, DiscoBien, FcbsFieles
    <3>4. metadata'[m] = metadata[m]
      BY <3>2, <1>5
    <3> QED
      BY <3>2, <3>3, <3>4 DEF FcbLeido
  <2> QED  BY <2>1, <2>2
<1>c. MetadataBien'
  <2> SUFFICES ASSUME NEW m \in Nombres, Esta(m)'
               PROVE  /\ metadata'[m].tamanio \in Nat
                      /\ metadata'[m].bloque = SinBloque => EnCurso({"asignar"}, m)'
    BY DEF MetadataBien
  <2>1. CASE m = n
    BY <2>1, <1>5, <1>8
  <2>2. CASE m # n
    BY <2>2, <1>5, <1>8 DEF DInv, DiscoBien, MetadataBien
  <2> QED  BY <2>1, <2>2
<1>d. Separados'
  BY <1>9, <1>11 DEF DInv, DiscoBien, Separados
<1>e. BitmapAlDia'
  <2>1. \A m : ~EnCurso({"marcar", "quitar"}, m) /\ ~EnCurso({"marcar", "quitar"}, m)'
    BY <1>8
  <2> QED
    BY <1>1, <1>9, <1>11, <2>1 DEF DInv, DiscoBien, BitmapAlDia
<1>f. Pendiente'
  <2>1. Apariciones(lista_fat, n)' = {k} /\ Posicion(lista_fat, n)' = k
    <3> PICK l : l = lista_fat'
      OBVIOUS
    <3>1. \A j \in 1..Len(l) : l[j].nombre = n => j = k
      BY <1>4, <1>6
    <3>2. l[k].nombre = n /\ k \in 1..Len(l) /\ l \in Seq(Fcb)
      BY <1>4
    <3> PICK h : h = k
      OBVIOUS
    <3>3. Unica(l, n, h)
      BY <3>1, <3>2 DEF Unica
    <3>4. Apariciones(l, n) = {h} /\ Posicion(l, n) = h
      BY <3>2, <3>3, PosicionUnica
    <3> QED
      BY <3>4 DEF Apariciones, Posicion
  <2> QED
    BY <2>1, <1>1, <1>2, <1>4, <1>5, <1>7 DEF Pendiente
<1> QED
  BY <1>t, <1>a, <1>b, <1>c, <1>d, <1>e, <1>f DEF DInv, DiscoBien

\* The FCB of the request halfway through
LEMMA EnCursoBien ==
  ASSUME DInv, op # Reposo
  PROVE  /\ op.nombre \in Nombres /\ Esta(op.nombre)
         /\ Unica(lista_fat, op.nombre, Posicion(lista_fat, op.nombre))
<1>1. op.nombre \in Nombres
  BY OpTipo DEF DInv
<1>2. Esta(op.nombre) /\ Apariciones(lista_fat, op.nombre) # {}
  BY DEF DInv, DiscoBien, Pendiente
<1>3. lista_fat \in Seq(Fcb) /\ UnFcb(lista_fat)
  BY DEF DInv, TypeOK, DiscoBien
<1> DEFINE i == Posicion(lista_fat, op.nombre)
<1>4. i \in 1..Len(lista_fat) /\ lista_fat[i].nombre = op.nombre
  <2> PICK m : m = op.nombre
    OBVIOUS
  <2>1. /\ Posicion(lista_fat, m) \in 1..Len(lista_fat)
        /\ lista_fat[Posicion(lista_fat, m)].nombre = m
    BY <1>2, <1>3, PosicionHallada
  <2> QED  BY <2>1
<1>5. \A j \in 1..Len(lista_fat) : lista_fat[j].nombre = op.nombre => j = i
  BY <1>3, <1>4 DEF UnFcb
<1> QED
  BY <1>1, <1>2, <1>4, <1>5 DEF Unica

\* A list with the FCB at i rewritten keeps its names.
LEMMA ListaReescrita ==
  ASSUME NEW l \in Seq(Fcb), NEW l2 \in Seq(Fcb), Len(l2) = Len(l),
         \A i \in 1..Len(l) : l2[i].nombre = l[i].nombre
  PROVE  /\ UnFcb(l) => UnFcb(l2)
         /\ \A n, i : Unica(l, n, i) => Unica(l2, n, i)
         /\ \A n : Apariciones(l2, n) = Apariciones(l, n)
         /\ \A n : Posicion(l2, n) = Posicion(l, n)
<1>1. UnFcb(l) => UnFcb(l2)
  BY DEF UnFcb
<1>2. \A n, i : Unica(l, n, i) => Unica(l2, n, i)
  BY DEF Unica
<1>3. \A n : Apariciones(l2, n) = Apariciones(l, n)
  BY DEF Apariciones
<1> QED  BY <1>1, <1>2, <1>3 DEF Posicion

LEMMA PasoAsignarBloque ==
  ASSUME DInv, AsignarBloque
  PROVE  DInv'
<1> PICK n, i, b : n = op.nombre /\ i = Posicion(lista_fat, op.nombre) /\ b = op.indice
  OBVIOUS
<1>1. /\ op.pc = "asignar"
      /\ lista_fat' = [lista_fat EXCEPT ![i].bloque = b]
      /\ metadata' = [metadata EXCEPT ![n] = [bloque |-> b, tamanio |-> lista_fat[i].tamanio]]
      /\ op' = [op EXCEPT !.pc = "marcar"]
      /\ UNCHANGED <<bitmap, bloques, caido>>
  BY DEF AsignarBloque
<1>2. op # Reposo /\ b \in Bits /\ op = [pc |-> "asignar", nombre |-> n, indice |-> b]
  BY <1>1, OpTipo DEF DInv, Reposo
<1>3. n \in Nombres /\ Esta(n) /\ Unica(lista_fat, n, i)
  BY <1>2, EnCursoBien
<1>4. /\ ~bitmap[b]
      /\ metadata[n] = [bloque |-> SinBloque, tamanio |-> 0]
      /\ lista_fat[i] = [nombre |-> n, bloque |-> SinBloque, tamanio |-> 0,
                         tamanio_en_bloques |-> 1]
  BY <1>1, <1>2 DEF DInv, DiscoBien, Pendiente
<1>5. /\ lista_fat \in Seq(Fcb) /\ i \in 1..Len(lista_fat) /\ Len(lista_fat) \in Nat
      /\ metadata \in [Nombres -> [bloque: Bits \union {SinBloque}, tamanio: Nat \union {Ausente}]]
      /\ b # SinBloque
  <2>1. b \in Nat
    BY <1>2, CeroEsBit
  <2>2. i \in 1..Len(lista_fat)
    BY <1>3 DEF Unica
  <2>3. b # SinBloque
    BY <2>1 DEF SinBloque
  <2>4. lista_fat \in Seq(Fcb)
        /\ metadata \in [Nombres -> [bloque: Bits \union {SinBloque}, tamanio: Nat \union {Ausente}]]
    BY DEF DInv, TypeOK
  <2> QED
    BY <2>2, <2>3, <2>4
<1> DEFINE F == [nombre |-> n, bloque |-> b, tamanio |-> 0, tamanio_en_bloques |-> 1]
<1>6. F \in Fcb
  BY <1>2, <1>3 DEF Fcb
<1>7. lista_fat' = [lista_fat EXCEPT ![i] = F]
  <2>1. [lista_fat[i] EXCEPT !.bloque = b] = F
    BY <1>4
  <2>2. lista_fat' = [lista_fat EXCEPT ![i] = [lista_fat[i] EXCEPT !.bloque = b]]
    BY <1>1
  <2> HIDE DEF F
  <2> QED  BY <2>1, <2>2
<1> HIDE DEF F
<1>8. /\ lista_fat' \in Seq(Fcb) /\ Len(lista_fat') = Len(lista_fat) /\ lista_fat'[i] = F
      /\ \A j \in 1..Len(lista_fat) : j # i => lista_fat'[j] = lista_fat[j]
  BY <1>5, <1>6, <1>7
<1>9. /\ metadata'[n] = [bloque |-> b, tamanio |-> 0]
      /\ \A m \in Nombres \ {n} : metadata'[m] = metadata[m]
  BY <1>1, <1>3, <1>4, <1>5
<1>10. op' = [pc |-> "marcar", nombre |-> n, indice |-> b]
  BY <1>1, <1>2
<1>11. /\ \A m, pcs : EnCurso(pcs, m)' <=> "marcar" \in pcs /\ m = n
       /\ \A m, pcs : EnCurso(pcs, m) <=> "asignar" \in pcs /\ m = n
  BY <1>2, <1>10 DEF EnCurso
<1>12. \A m \in Nombres \ {n} : /\ Reservados(m)' = Reservados(m)
                                /\ (m \in Creados)' <=> m \in Creados
  BY <1>9, <1>11, MismosBloques
<1>13. n \notin Creados /\ (n \in Creados)' /\ Esta(n)'
  BY <1>3, <1>4, <1>5, <1>9 DEF Creados, Esta, SinArchivo, Ausente
<1>14. Creados' = Creados \union {n} /\ n \notin Creados /\ Creados \subseteq Nombres
  BY <1>3, <1>12, <1>13 DEF Creados
<1>15. Reservados(n)' = {b}
  <2>1. Donde(n)' = b /\ Cuantos(n)' = 1
    BY <1>9, <1>11, TamanioEnBloques DEF Donde, Cuantos
  <2>2. b \in Int
    BY <1>2, CeroEsBit
  <2> QED
    BY <2>1, <2>2 DEF Reservados, Tramo
<1>16. \A m \in Creados : b \notin Reservados(m) /\ m \in Nombres \ {n}
  BY <1>2, <1>4, <1>11, <1>14 DEF DInv, DiscoBien, BitmapAlDia
<1>t. TypeOK'
  <2>1. op' \in [pc: {"asignar", "marcar"}, nombre: Nombres, indice: Bits]
    BY <1>2, <1>3, <1>10
  <2>2. metadata' \in [Nombres -> [bloque: Bits \union {SinBloque}, tamanio: Nat \union {Ausente}]]
    <3> DEFINE R == [bloque |-> b, tamanio |-> lista_fat[i].tamanio]
    <3>1. R \in [bloque: Bits \union {SinBloque}, tamanio: Nat \union {Ausente}]
      BY <1>2, <1>4
    <3>2. metadata' = [metadata EXCEPT ![n] = R]
      BY <1>1
    <3> HIDE DEF R
    <3> QED  BY <1>5, <3>1, <3>2
  <2> QED
    BY <1>1, <1>8, <2>1, <2>2 DEF DInv, TypeOK
<1>l. \A j \in 1..Len(lista_fat) : lista_fat'[j].nombre = lista_fat[j].nombre
  BY <1>3, <1>8 DEF F, Unica
<1>m. \A m \in Nombres : Esta(m)' <=> Esta(m)
  BY <1>3, <1>9, <1>13 DEF Esta
<1>a. UnFcb(lista_fat)'
  <2>1. UnFcb(lista_fat) /\ \A j \in 1..Len(lista_fat) : lista_fat[j].nombre \in Nombres
    BY <1>5, FcbTipo DEF DInv, DiscoBien
  <2> QED
    BY <2>1, <1>5, <1>8, <1>l, <1>m DEF UnFcb
<1>b. FcbsFieles(lista_fat)'
  <2> SUFFICES ASSUME NEW j \in 1..Len(lista_fat)
               PROVE  (lista_fat[j] = FcbLeido(lista_fat[j].nombre))'
    BY <1>8 DEF FcbsFieles
  <2>1. CASE j = i
    BY <2>1, <1>5, <1>8, <1>9, TamanioEnBloques DEF F, FcbLeido
  <2>2. CASE j # i
    <3> DEFINE m == lista_fat[j].nombre
    <3>1. m \in Nombres \ {n}
      BY <1>3, <1>5, <2>2, FcbTipo DEF Unica
    <3>2. lista_fat[j] = FcbLeido(m)
      BY <3>1, <1>5, <1>11 DEF DInv, DiscoBien, FcbsFieles
    <3> QED
      BY <2>2, <3>1, <3>2, <1>8, <1>9 DEF FcbLeido
  <2> QED  BY <2>1, <2>2
<1>c. MetadataBien'
  <2> SUFFICES ASSUME NEW m \in Nombres, Esta(m)'
               PROVE  metadata'[m].tamanio \in Nat /\ metadata'[m].bloque # SinBloque
    BY DEF MetadataBien
  <2>1. CASE m = n
    BY <2>1, <1>5, <1>9
  <2>2. CASE m # n
    BY <2>2, <1>9, <1>11, <1>m DEF DInv, DiscoBien, MetadataBien
  <2> QED  BY <2>1, <2>2
<1>d. Separados'
  <2> SUFFICES ASSUME NEW m \in Creados'
               PROVE  /\ Reservados(m)' \subseteq Bits
                      /\ \A q \in Creados' \ {m} :
                           Reservados(m)' \intersect Reservados(q)' = {}
    BY DEF Separados
  <2>1. /\ Reservados(m)' \subseteq Bits
        /\ \A q \in Creados : Reservados(q)' = Reservados(q)
    BY <1>2, <1>12, <1>14, <1>15, <1>16 DEF DInv, DiscoBien, Separados
  <2>2. ASSUME NEW q \in Creados' \ {m}
        PROVE  Reservados(m)' \intersect Reservados(q)' = {}
    <3>1. CASE m = n
      BY <3>1, <2>1, <1>14, <1>15, <1>16
    <3>2. CASE q = n
      BY <3>2, <2>1, <1>14, <1>15, <1>16
    <3>3. CASE m # n /\ q # n
      BY <3>3, <2>1, <1>14 DEF DInv, DiscoBien, Separados
    <3> QED  BY <3>1, <3>2, <3>3
  <2> QED  BY <2>1, <2>2
<1>e. BitmapAlDia'
  <2> SUFFICES ASSUME NEW c \in Bits
               PROVE  bitmap[c] <=> \E m \in Creados' : /\ c \in Reservados(m)'
                                                        /\ ~EnCurso({"marcar", "quitar"}, m)'
    BY <1>1 DEF BitmapAlDia
  <2>1. bitmap[c] <=> \E m \in Creados : c \in Reservados(m)
    BY <1>11 DEF DInv, DiscoBien, BitmapAlDia
  <2>2. \A m \in Creados' : EnCurso({"marcar", "quitar"}, m)' <=> m = n
    BY <1>11
  <2> QED
    BY <2>1, <2>2, <1>12, <1>14, <1>16
<1>f. Pendiente'
  <2>1. op'.pc = "marcar" /\ op'.nombre = n /\ op'.indice = b
    BY <1>10
  <2>2. (Apariciones(lista_fat, n) # {})'
    BY <1>5, <1>8 DEF Apariciones, F
  <2> QED
    BY <2>1, <2>2, <1>9, <1>13 DEF Pendiente
<1> QED
  BY <1>t, <1>a, <1>b, <1>c, <1>d, <1>e, <1>f DEF DInv, DiscoBien

LEMMA PasoMarcarBloque ==
  ASSUME DInv, MarcarBloque
  PROVE  DInv'
<1> PICK n, b : n = op.nombre /\ b = op.indice
  OBVIOUS
<1>1. /\ op.pc = "marcar" /\ op' = Reposo
      /\ bitmap' = [c \in Bits |-> bitmap[c] \/ c = b]
      /\ UNCHANGED <<lista_fat, metadata, bloques, caido>>
  BY DEF MarcarBloque, MarcarBit, Poner
<1>2. op # Reposo /\ b \in Bits
  BY <1>1, OpTipo DEF DInv, Reposo
<1>3. n \in Nombres /\ Esta(n)
  BY <1>2, EnCursoBien
<1>4. metadata[n] = [bloque |-> b, tamanio |-> 0]
  BY <1>1, <1>2 DEF DInv, DiscoBien, Pendiente
<1>5. /\ \A m, pcs : EnCurso(pcs, m) <=> "marcar" \in pcs /\ m = n
      /\ \A m, pcs : EnCurso(pcs, m)' <=> "reposo" \in pcs /\ op'.nombre = m
  BY <1>1 DEF EnCurso, Reposo
<1>6. /\ \A m : Reservados(m)' = Reservados(m) /\ ((m \in Creados)' <=> m \in Creados)
      /\ Creados' = Creados
  <2>1. \A m : Reservados(m)' = Reservados(m) /\ ((m \in Creados)' <=> m \in Creados)
    BY <1>1, <1>5, MismosBloques
  <2> QED
    BY <1>1, <2>1 DEF Creados, Esta
<1>7. n \in Creados /\ Reservados(n) = {b}
  <2>1. Donde(n) = b /\ Cuantos(n) = 1
    BY <1>4, <1>5, TamanioEnBloques DEF Donde, Cuantos
  <2>2. b \in Nat
    BY <1>2, CeroEsBit
  <2>3. Reservados(n) = {b}
    BY <2>1, <2>2 DEF Reservados, Tramo
  <2> QED
    BY <1>3, <1>4, <2>2, <2>3 DEF Creados, SinBloque
<1>t. TypeOK'
  BY <1>1 DEF DInv, TypeOK
<1>a. UnFcb(lista_fat)' /\ FcbsFieles(lista_fat)'
  BY <1>1, <1>5 DEF DInv, DiscoBien, UnFcb, FcbsFieles, Esta, FcbLeido
<1>b. MetadataBien'
  BY <1>1, <1>5 DEF DInv, DiscoBien, MetadataBien, Esta
<1>c. Separados'
  BY <1>6 DEF DInv, DiscoBien, Separados
<1>d. BitmapAlDia'
  <2> SUFFICES ASSUME NEW c \in Bits
               PROVE  bitmap'[c] <=> \E m \in Creados : c \in Reservados(m)
    BY <1>5, <1>6 DEF BitmapAlDia
  <2>1. bitmap[c] <=> \E m \in Creados : c \in Reservados(m) /\ m # n
    BY <1>5 DEF DInv, DiscoBien, BitmapAlDia
  <2>2. bitmap'[c] <=> bitmap[c] \/ c = b
    BY <1>1
  <2> QED
    BY <2>1, <2>2, <1>7
<1>e. Pendiente'
  BY <1>1 DEF Pendiente
<1> QED
  BY <1>t, <1>a, <1>b, <1>c, <1>d, <1>e DEF DInv, DiscoBien

LEMMA PasoBorrar ==
  ASSUME DInv, NEW n \in Nombres, Borrar(n)
  PROVE  DInv'
<1> PICK l, i, f : l = ConFcb(n) /\ i = Posicion(l, n) /\ f = l[i]
  OBVIOUS
<1>1. /\ op = Reposo /\ Pedible(n) /\ lista_fat' = l
      /\ bitmap' = [c \in Bits |-> bitmap[c] /\ c \notin Tramo(f.bloque, f.tamanio_en_bloques)]
      /\ op' = [pc |-> "quitar", nombre |-> n, indice |-> i]
      /\ UNCHANGED <<metadata, bloques, caido>>
  BY DEF Borrar, Pedible, Libre, Quitar
<1>2. PedidoBien(l, n)
  BY <1>1, ConFcbBien DEF DInv
<1>3. /\ i \in 1..Len(l) /\ l \in Seq(Fcb) /\ Apariciones(l, n) # {}
      /\ f = FcbLeido(n) /\ Esta(n) /\ n \in Creados
  BY <1>2 DEF PedidoBien
<1>4. /\ Tramo(f.bloque, f.tamanio_en_bloques) = Reservados(n)
  BY <1>1, <1>3, EnReposo DEF DInv
<1>5. /\ \A m, pcs : "reposo" \notin pcs => ~EnCurso(pcs, m)
      /\ \A m, pcs : EnCurso(pcs, m)' <=> "quitar" \in pcs /\ m = n
  BY <1>1 DEF EnCurso, Reposo
<1>6. \A m : /\ Reservados(m)' = Reservados(m)
             /\ (m \in Creados)' <=> m \in Creados
  BY <1>1, <1>5, MismosBloques
<1>7. Creados' = Creados
  BY <1>1 DEF Creados, Esta
<1>8. (lista_fat \in Seq(Fcb) /\ UnFcb(lista_fat))'
      /\ \A j \in DOMAIN l : l[j] = FcbLeido(l[j].nombre)'
  BY <1>1, <1>2, ListaDespues
<1>t. TypeOK'
  <2>1. op' \in [pc: {"quitar"}, nombre: Nombres, indice: Nat]
    BY <1>1, <1>3
  <2> QED
    BY <1>1, <1>8, <2>1 DEF DInv, TypeOK
<1>a. FcbsFieles(lista_fat)'
  BY <1>1, <1>8 DEF FcbsFieles
<1>b. MetadataBien'
  BY <1>1, <1>5 DEF DInv, DiscoBien, MetadataBien, Esta
<1>c. Separados'
  BY <1>6, <1>7 DEF DInv, DiscoBien, Separados
<1>d. BitmapAlDia'
  <2> SUFFICES ASSUME NEW c \in Bits
               PROVE  bitmap'[c] <=> \E m \in Creados : c \in Reservados(m) /\ m # n
    BY <1>5, <1>6, <1>7 DEF BitmapAlDia
  <2>1. bitmap[c] <=> \E m \in Creados : c \in Reservados(m)
    BY <1>5 DEF DInv, DiscoBien, BitmapAlDia
  <2>2. bitmap'[c] <=> bitmap[c] /\ c \notin Reservados(n)
    BY <1>1, <1>4
  <2>3. \A m \in Creados \ {n} : Reservados(n) \intersect Reservados(m) = {}
    BY <1>3 DEF DInv, DiscoBien, Separados
  <2> QED
    BY <2>1, <2>2, <2>3, <1>3
<1>e. Pendiente'
  <2>1. op'.pc = "quitar" /\ op'.nombre = n /\ op'.indice = i
    BY <1>1
  <2>2. Esta(n)' /\ Apariciones(lista_fat, n)' # {} /\ Posicion(lista_fat, n)' = i
    BY <1>1, <1>3 DEF Esta, Apariciones, Posicion
  <2> QED
    BY <2>1, <2>2 DEF Pendiente
<1> QED
  BY <1>t, <1>8, <1>a, <1>b, <1>c, <1>d, <1>e DEF DInv, DiscoBien

LEMMA PasoQuitarFcb ==
  ASSUME DInv, QuitarFcb
  PROVE  DInv'
<1> PICK n, k, len : n = op.nombre /\ k = op.indice /\ len = Len(lista_fat)
  OBVIOUS
<1> DEFINE E(i) == IF i < k THEN i ELSE i + 1
<1>1. /\ op.pc = "quitar" /\ op' = Reposo
      /\ lista_fat' = [i \in 1..(len - 1) |-> lista_fat[E(i)]]
      /\ metadata' = [metadata EXCEPT ![n] = SinArchivo]
      /\ UNCHANGED <<bitmap, bloques, caido>>
  BY DEF QuitarFcb, BorrarMetadata
<1>2. op # Reposo
  BY <1>1 DEF Reposo
<1>3. n \in Nombres /\ Esta(n) /\ Unica(lista_fat, n, k)
  <2>1. k = Posicion(lista_fat, n)
    BY <1>1, <1>2 DEF DInv, DiscoBien, Pendiente
  <2> QED
    BY <2>1, <1>2, EnCursoBien
<1>4. /\ lista_fat \in Seq(Fcb) /\ len \in Nat /\ k \in 1..len /\ DOMAIN lista_fat = 1..len
      /\ metadata \in [Nombres -> [bloque: Bits \union {SinBloque}, tamanio: Nat \union {Ausente}]]
  <2>1. lista_fat \in Seq(Fcb)
        /\ metadata \in [Nombres -> [bloque: Bits \union {SinBloque}, tamanio: Nat \union {Ausente}]]
    BY DEF DInv, TypeOK
  <2>2. k \in 1..len
    BY <1>3 DEF Unica
  <2> QED  BY <2>1, <2>2
<1>5. \A i \in 1..(len - 1) : E(i) \in 1..len /\ E(i) # k
  BY <1>4
<1>6. \A i, j \in 1..(len - 1) : E(i) = E(j) => i = j
  BY <1>4
<1> HIDE DEF E
<1>7. /\ lista_fat' \in Seq(Fcb)
      /\ DOMAIN lista_fat' = 1..(len - 1)
      /\ \A i \in 1..(len - 1) : lista_fat'[i] = lista_fat[E(i)]
  <2>1. \A i \in 1..(len - 1) : lista_fat[E(i)] \in Fcb
    BY <1>4, <1>5, FcbTipo
  <2>2. len - 1 \in Nat /\ lista_fat' \in [1..(len - 1) -> Fcb]
    BY <1>1, <1>4, <2>1
  <2>3. lista_fat' \in Seq(Fcb)
    BY <2>2, SeqDef
  <2> QED
    BY <1>1, <2>3
<1>8. /\ metadata'[n] = SinArchivo
      /\ \A m \in Nombres \ {n} : metadata'[m] = metadata[m]
  BY <1>1, <1>3, <1>4
<1>9. /\ \A m, pcs : EnCurso(pcs, m) <=> "quitar" \in pcs /\ m = n
      /\ \A m, pcs : "reposo" \notin pcs => ~EnCurso(pcs, m)'
  BY <1>1 DEF EnCurso, Reposo
<1>10. \A m \in Nombres \ {n} : /\ Reservados(m)' = Reservados(m)
                                /\ (m \in Creados)' <=> m \in Creados
  BY <1>8, <1>9, MismosBloques
<1>11. (n \notin Creados)' /\ ~Esta(n)' /\ \A m \in Nombres \ {n} : Esta(m)' <=> Esta(m)
  BY <1>8 DEF Creados, Esta
<1>12. Creados' = Creados \ {n} /\ Creados \subseteq Nombres
  BY <1>10, <1>11 DEF Creados
<1>13. \A j \in 1..len : j # k => lista_fat[j].nombre \in Nombres \ {n}
  BY <1>3, <1>4, FcbTipo DEF Unica
<1>t. TypeOK'
  <2>1. SinArchivo \in [bloque: Bits \union {SinBloque}, tamanio: Nat \union {Ausente}]
    BY DEF SinArchivo
  <2>2. metadata' \in [Nombres -> [bloque: Bits \union {SinBloque}, tamanio: Nat \union {Ausente}]]
    BY <1>1, <1>4, <2>1
  <2> QED
    BY <1>1, <1>7, <2>2 DEF DInv, TypeOK
<1>a. UnFcb(lista_fat)' /\ FcbsFieles(lista_fat)'
  <2>1. ASSUME NEW i \in 1..(len - 1), NEW j \in 1..(len - 1),
               lista_fat'[i].nombre = lista_fat'[j].nombre
        PROVE  i = j
    <3>1. E(i) = E(j)
      BY <1>4, <1>5, <1>7, <2>1 DEF DInv, DiscoBien, UnFcb
    <3> QED  BY <3>1, <1>6
  <2>2. ASSUME NEW i \in 1..(len - 1)
        PROVE  Esta(lista_fat[i].nombre)' /\ (lista_fat[i] = FcbLeido(lista_fat[i].nombre))'
    <3> PICK m : m = lista_fat[E(i)].nombre
      OBVIOUS
    <3>1. m \in Nombres \ {n} /\ lista_fat'[i] = lista_fat[E(i)] /\ lista_fat'[i].nombre = m
      BY <1>5, <1>7, <1>13
    <3>2. Esta(m) /\ lista_fat[E(i)] = FcbLeido(m)
      BY <1>4, <1>5, <1>9, <3>1 DEF DInv, DiscoBien, UnFcb, FcbsFieles
    <3>3. Esta(m)' /\ FcbLeido(m)' = FcbLeido(m)
      BY <3>1, <3>2, <1>8, <1>11 DEF FcbLeido
    <3> QED
      BY <3>1, <3>2, <3>3
  <2> QED
    BY <2>1, <2>2, <1>7 DEF UnFcb, FcbsFieles
<1>b. MetadataBien'
  <2> SUFFICES ASSUME NEW m \in Nombres, Esta(m)'
               PROVE  metadata'[m].tamanio \in Nat /\ metadata'[m].bloque # SinBloque
    BY DEF MetadataBien
  <2>1. m # n /\ Esta(m)
    BY <1>11
  <2> QED
    BY <2>1, <1>8, <1>9 DEF DInv, DiscoBien, MetadataBien
<1>c. Separados'
  BY <1>10, <1>12 DEF DInv, DiscoBien, Separados
<1>d. BitmapAlDia'
  BY <1>1, <1>9, <1>10, <1>12 DEF DInv, DiscoBien, BitmapAlDia
<1>e. Pendiente'
  BY <1>1 DEF Pendiente
<1> QED
  BY <1>t, <1>a, <1>b, <1>c, <1>d, <1>e DEF DInv, DiscoBien

EsFcb(f, n, b, t, c) ==
  f = [nombre |-> n, bloque |-> b, tamanio |-> t, tamanio_en_bloques |-> c]

Reescrito(f, t, c) == [[f EXCEPT !.tamanio = t] EXCEPT !.tamanio_en_bloques = c]

LEMMA FcbReescrito ==
  ASSUME NEW n, NEW b, NEW t, NEW c, NEW t2, NEW c2, NEW f, EsFcb(f, n, b, t, c)
  PROVE  EsFcb(Reescrito(f, t2, c2), n, b, t2, c2)
<1> DEFINE g == [f EXCEPT !.tamanio = t2]
<1>1. g = [nombre |-> n, bloque |-> b, tamanio |-> t2, tamanio_en_bloques |-> c]
  BY DEF EsFcb
<1> HIDE DEF g
<1>2. [g EXCEPT !.tamanio_en_bloques = c2] =
        [nombre |-> n, bloque |-> b, tamanio |-> t2, tamanio_en_bloques |-> c2]
  BY <1>1
<1> QED  BY <1>2 DEF g, EsFcb, Reescrito

Mudado(f, b, t, c) == [f EXCEPT !.bloque = b, !.tamanio = t, !.tamanio_en_bloques = c]

LEMMA FcbMudado ==
  ASSUME NEW n, NEW b, NEW t, NEW c, NEW b2, NEW t2, NEW c2, NEW f, EsFcb(f, n, b, t, c)
  PROVE  EsFcb(Mudado(f, b2, t2, c2), n, b2, t2, c2)
<1> DEFINE g == [f EXCEPT !.bloque = b2]
<1>1. EsFcb(g, n, b2, t, c)
  BY DEF EsFcb
<1>2. Mudado(f, b2, t2, c2) = Reescrito(g, t2, c2)
  BY DEF Mudado, Reescrito
<1> HIDE DEF g
<1> QED  BY <1>1, <1>2, FcbReescrito

\* GuardarTruncado also repeats in memory what the truncate decided.
LEMMA PasoGuardarTruncado ==
  ASSUME DInv, GuardarTruncado
  PROVE  DInv'
<1> PICK n, i, nuevo, f :
      /\ n = op.nombre /\ i = Posicion(lista_fat, op.nombre) /\ nuevo = op.nuevo
      /\ f = lista_fat[i]
  OBVIOUS
<1> DEFINE mudado == op.pc = "guardar_mudado"
           T == tamanio_en_bloques(nuevo)
           B == IF mudado THEN f.bloque ELSE metadata[n].bloque
           F == [nombre |-> n, bloque |-> B, tamanio |-> nuevo, tamanio_en_bloques |-> T]
           R == [bloque |-> B, tamanio |-> nuevo]
<1>1. /\ op.pc \in {"guardar", "guardar_mudado"} /\ op' = Reposo
      /\ UNCHANGED <<bitmap, bloques, caido>>
  BY DEF GuardarTruncado
<1>2. op # Reposo /\ nuevo \in Nat
  BY <1>1, OpTipo DEF DInv, Reposo
<1>3. n \in Nombres /\ Esta(n) /\ Unica(lista_fat, n, i)
  BY <1>2, EnCursoBien
<1>4. lista_fat \in Seq(Fcb)
      /\ metadata \in [Nombres -> [bloque: Bits \union {SinBloque}, tamanio: Nat \union {Ausente}]]
  BY DEF DInv, TypeOK
<1>5. i \in 1..Len(lista_fat) /\ f.nombre = n /\ f \in Fcb /\ Len(lista_fat) \in Nat
      /\ DOMAIN lista_fat = 1..Len(lista_fat)
  BY <1>3, <1>4, FcbTipo DEF Unica
<1>6. T \in Nat \ {0}
  BY <1>2, TamanioEnBloques
<1>7. /\ \A m, pcs : EnCurso(pcs, m) <=> op.pc \in pcs /\ m = n
      /\ \A m, pcs : "reposo" \notin pcs => ~EnCurso(pcs, m)'
  BY <1>1 DEF EnCurso, Reposo
<1>8. metadata[n].tamanio \in Nat /\ metadata[n].bloque \in Bits /\ metadata[n].bloque # SinBloque
  BY <1>1, <1>3, <1>4, <1>7 DEF DInv, DiscoBien, MetadataBien
<1>9. /\ mudado => f.bloque \in Bits
      /\ ~mudado => op.pc = "guardar" /\ f.bloque = metadata[n].bloque
  <2>1. CASE mudado
    BY <2>1, <1>1, <1>2 DEF DInv, DiscoBien, Pendiente
  <2>2. CASE ~mudado
    <3>1. op.pc = "guardar" /\ ~EnCurso({"asignar", "guardar_mudado"}, n)
      BY <2>2, <1>1, <1>7
    <3>2. f = FcbLeido(n)
      BY <3>1, <1>5 DEF DInv, DiscoBien, FcbsFieles
    <3> QED
      BY <3>1, <3>2, <2>2, <1>8 DEF FcbLeido
  <2> QED  BY <2>1, <2>2
<1>10. B \in Bits /\ B # SinBloque /\ B \in Nat /\ B = f.bloque
  <2>1. B \in Bits /\ B = f.bloque
    BY <1>8, <1>9
  <2>2. B \in Nat
    BY <2>1, CeroEsBit
  <2>3. B # SinBloque
    BY <2>2 DEF SinBloque
  <2> QED  BY <2>1, <2>2, <2>3
<1>11. lista_fat' = [lista_fat EXCEPT ![i] = F]
  <2>1. Reescrito(f, nuevo, T) = F
    <3>1. f = [nombre |-> n, bloque |-> B, tamanio |-> f.tamanio,
               tamanio_en_bloques |-> f.tamanio_en_bloques]
      <4> HIDE DEF B
      <4> QED  BY <1>5, <1>10 DEF Fcb
    <3> PICK b, t, c, c2 : b = B /\ t = f.tamanio /\ c = f.tamanio_en_bloques /\ c2 = T
      OBVIOUS
    <3>2. EsFcb(f, n, b, t, c)
      <4> HIDE DEF B
      <4> QED  BY <3>1 DEF EsFcb
    <3>3. EsFcb(Reescrito(f, nuevo, c2), n, b, nuevo, c2)
      BY <3>2, FcbReescrito
    <3> HIDE DEF B, T
    <3> QED  BY <3>3 DEF F, EsFcb
  <2>2. lista_fat' = [lista_fat EXCEPT ![i] = Reescrito(f, nuevo, T)]
    BY <1>5 DEF GuardarTruncado, Reescrito
  <2> HIDE DEF F
  <2> QED  BY <2>1, <2>2
<1>12. metadata' = [metadata EXCEPT ![n] = R]
  <2>1. MetadataGuardada(metadata[n], i) = R
    <3>1. metadata[n] = [bloque |-> metadata[n].bloque, tamanio |-> metadata[n].tamanio]
      BY <1>3, <1>4
    <3>2. MetadataGuardada(metadata[n], i) =
            [metadata[n] EXCEPT !.tamanio = nuevo, !.bloque = B]
      BY DEF MetadataGuardada
    <3> HIDE DEF B
    <3> QED  BY <3>1, <3>2
  <2>2. metadata' = [metadata EXCEPT ![n] = MetadataGuardada(metadata[n], i)]
    BY <1>3, <1>4 DEF GuardarTruncado
  <2> HIDE DEF R
  <2> QED  BY <2>1, <2>2
<1>13. F \in Fcb /\ R \in [bloque: Bits \union {SinBloque}, tamanio: Nat \union {Ausente}]
       /\ F.nombre = n
  BY <1>2, <1>3, <1>6, <1>10 DEF Fcb
<1>14. /\ lista_fat' \in Seq(Fcb) /\ Len(lista_fat') = Len(lista_fat) /\ lista_fat'[i] = F
       /\ \A j \in 1..Len(lista_fat) : j # i => lista_fat'[j] = lista_fat[j]
  <2> HIDE DEF F
  <2> QED  BY <1>4, <1>5, <1>11, <1>13
<1>15. /\ metadata'[n] = R
       /\ \A m \in Nombres \ {n} : metadata'[m] = metadata[m]
  <2> HIDE DEF R
  <2> QED  BY <1>3, <1>4, <1>12
<1>16. \A m \in Nombres \ {n} : /\ Reservados(m)' = Reservados(m)
                                /\ (m \in Creados)' <=> m \in Creados
  BY <1>7, <1>15, MismosBloques
<1>17. Reservados(n)' = Reservados(n)
  <2>1. Donde(n)' = B /\ Cuantos(n)' = T
    BY <1>7, <1>15 DEF Donde, Cuantos
  <2>2. Donde(n) = B /\ Cuantos(n) = T
    BY <1>1, <1>7 DEF Donde, Cuantos
  <2> QED  BY <2>1, <2>2 DEF Reservados
<1>18. (n \in Creados)' /\ n \in Creados /\ \A m \in Nombres : Esta(m)' <=> Esta(m)
  <2>1. R # SinArchivo
    BY <1>2 DEF SinArchivo, Ausente
  <2> QED
    BY <2>1, <1>3, <1>8, <1>10, <1>15 DEF Creados, Esta
<1>19. Creados' = Creados /\ Creados \subseteq Nombres
       /\ \A m \in Creados : Reservados(m)' = Reservados(m)
  BY <1>16, <1>17, <1>18 DEF Creados
<1>t. TypeOK'
  <2>1. metadata' \in [Nombres -> [bloque: Bits \union {SinBloque}, tamanio: Nat \union {Ausente}]]
    <3> HIDE DEF R
    <3> QED  BY <1>4, <1>12, <1>13
  <2> QED
    BY <1>1, <1>14, <2>1 DEF DInv, TypeOK
<1>a. UnFcb(lista_fat)' /\ FcbsFieles(lista_fat)'
  <2>1. \A j \in 1..Len(lista_fat) : lista_fat'[j].nombre = lista_fat[j].nombre
                                     /\ lista_fat[j].nombre \in Nombres
    BY <1>4, <1>5, <1>13, <1>14, FcbTipo
  <2>2. UnFcb(lista_fat)'
    BY <2>1, <1>5, <1>14, <1>18 DEF DInv, DiscoBien, UnFcb
  <2>3. ASSUME NEW j \in 1..Len(lista_fat)
        PROVE  (lista_fat[j] = FcbLeido(lista_fat[j].nombre))'
    <3>1. CASE j = i
      BY <3>1, <1>10, <1>13, <1>14, <1>15 DEF FcbLeido
    <3>2. CASE j # i
      <4> PICK m : m = lista_fat[j].nombre
        OBVIOUS
      <4>1. m \in Nombres \ {n}
        BY <3>2, <2>1, <1>3 DEF Unica
      <4>2. lista_fat[j] = FcbLeido(m)
        BY <4>1, <1>5, <1>7 DEF DInv, DiscoBien, FcbsFieles
      <4>3. FcbLeido(m)' = FcbLeido(m)
        BY <4>1, <1>15 DEF FcbLeido
      <4> QED
        BY <3>2, <4>2, <4>3, <2>1, <1>14
    <3> QED  BY <3>1, <3>2
  <2> QED
    BY <2>2, <2>3, <1>14 DEF FcbsFieles
<1>b. MetadataBien'
  <2> SUFFICES ASSUME NEW m \in Nombres, Esta(m)'
               PROVE  metadata'[m].tamanio \in Nat /\ metadata'[m].bloque # SinBloque
    BY DEF MetadataBien
  <2>1. CASE m = n
    BY <2>1, <1>2, <1>10, <1>15
  <2>2. CASE m # n
    BY <2>2, <1>7, <1>15, <1>18 DEF DInv, DiscoBien, MetadataBien
  <2> QED  BY <2>1, <2>2
<1>c. Separados'
  BY <1>19 DEF DInv, DiscoBien, Separados
<1>d. BitmapAlDia'
  <2>1. \A m : ~EnCurso({"marcar", "quitar"}, m) /\ ~EnCurso({"marcar", "quitar"}, m)'
    BY <1>1, <1>7
  <2> QED
    BY <1>1, <1>19, <2>1 DEF DInv, DiscoBien, BitmapAlDia
<1>e. Pendiente'
  BY <1>1 DEF Pendiente
<1> QED
  BY <1>t, <1>a, <1>b, <1>c, <1>d, <1>e DEF DInv, DiscoBien

\* What a TRUNCATE adds when no case is covered: the blocks after the first of
\* an empty file, or none.
LEMMA Agrega ==
  ASSUME SoloDatos, NEW f, NEW nuevo \in Nat, TruncadoCubierto(f, nuevo),
         f.tamanio \in Nat, f.tamanio_en_bloques = tamanio_en_bloques(f.tamanio)
  PROVE  /\ f.tamanio_en_bloques = 1
         /\ tamanio_en_bloques(nuevo) \in Nat \ {0}
         /\ \/ f.tamanio = 0 /\ PorAgregar(f, nuevo) = tamanio_en_bloques(nuevo) - 1
            \/ /\ tamanio_en_bloques(nuevo) = 1
               /\ PorAgregar(f, nuevo) \in {-1, 0}
               /\ f.bloque + 1 \notin Bits \ BitsLibres
<1>1. tamanio_en_bloques(nuevo) \in Nat \ {0}
  BY TamanioEnBloques
<1>2. CASE f.tamanio = 0
  <2>1. f.tamanio_en_bloques = 1
    BY <1>2, TamanioEnBloques
  <2>2. nuevo - f.tamanio = nuevo
    BY <1>2
  <2>3. PorAgregar(f, nuevo) = tamanio_en_bloques(nuevo) - 1
    BY <2>1, <2>2 DEF PorAgregar
  <2> QED  BY <1>1, <1>2, <2>1, <2>3
<1>3. CASE f.tamanio # 0
  <2>1. /\ f.tamanio <= BLOCK_SIZE /\ nuevo \in 1..BLOCK_SIZE
        /\ f.bloque + 1 \notin Bits \ BitsLibres
    BY <1>3 DEF TruncadoCubierto, SoloDatos
  <2>2. BLOCK_SIZE \in Nat \ {0}
    BY Constantes
  <2>3. f.tamanio \in 1..BLOCK_SIZE /\ f.tamanio \in Nat \ {0} /\ nuevo \in Nat \ {0}
        /\ nuevo <= BLOCK_SIZE
    BY <1>3, <2>1, <2>2
  <2>4. f.tamanio_en_bloques = 1
    <3> PICK t : t = f.tamanio
      OBVIOUS
    <3>1. tamanio_en_bloques(t) = 1
      BY <2>1, <2>3, Techo
    <3> QED  BY <3>1
  <2>5. tamanio_en_bloques(nuevo) = 1
    BY <2>3, Techo
  <2>6. tamanio_en_bloques(nuevo - f.tamanio) \in {0, 1}
    <3> PICK t : t = f.tamanio
      OBVIOUS
    <3>1. tamanio_en_bloques(nuevo - t) \in {0, 1}
      BY <2>1, <2>3, TechoDentro
    <3> QED  BY <3>1
  <2>7. PorAgregar(f, nuevo) \in {-1, 0}
    BY <2>4, <2>6 DEF PorAgregar
  <2> QED  BY <1>1, <2>1, <2>4, <2>5, <2>7
<1> QED  BY <1>2, <1>3

\* The truncated file stays where it is, and the bits after its block are set.
EnSuLugar(l, n, nuevo) ==
  LET f == FcbLeido(n)
      nuevos == Tramo(f.bloque + 1, tamanio_en_bloques(nuevo) - 1) IN
  /\ f.tamanio_en_bloques = 1
  /\ nuevos \subseteq BitsLibres
  /\ bitmap' \in [Bits -> BOOLEAN]
  /\ \A c \in Bits : bitmap'[c] <=> bitmap[c] \/ c \in nuevos
  /\ AlGuardar(l, n, nuevo)
  /\ UNCHANGED caido

LEMMA PasoEnSuLugar ==
  ASSUME DInv, op = Reposo, NEW n \in Nombres, NEW nuevo \in Nat, NEW l,
         PedidoBien(l, n), EnSuLugar(l, n, nuevo)
  PROVE  DInv'
<1> PICK T, B : T = tamanio_en_bloques(nuevo) /\ B = metadata[n].bloque
  OBVIOUS
<1>1. /\ l \in Seq(Fcb) /\ Apariciones(l, n) # {} /\ Esta(n) /\ n \in Creados
  BY DEF PedidoBien
<1>2. /\ T \in Nat \ {0} /\ metadata[n].tamanio \in Nat /\ B \in Nat
      /\ FcbLeido(n).bloque = B
      /\ FcbLeido(n).tamanio_en_bloques = tamanio_en_bloques(metadata[n].tamanio)
      /\ Reservados(n) = Tramo(B, tamanio_en_bloques(metadata[n].tamanio))
  <2>1. /\ metadata[n].tamanio \in Nat /\ metadata[n].bloque \in Bits
        /\ FcbLeido(n) = [nombre |-> n, bloque |-> metadata[n].bloque,
                          tamanio |-> metadata[n].tamanio,
                          tamanio_en_bloques |-> tamanio_en_bloques(metadata[n].tamanio)]
        /\ Reservados(n) = Tramo(metadata[n].bloque,
                                 tamanio_en_bloques(metadata[n].tamanio))
    BY <1>1, EnReposo DEF DInv
  <2>2. B \in Nat
    BY <2>1, CeroEsBit
  <2>3. T \in Nat \ {0}
    BY TamanioEnBloques
  <2> QED  BY <2>1, <2>2, <2>3
<1>3. /\ tamanio_en_bloques(metadata[n].tamanio) = 1
      /\ Tramo(B + 1, T - 1) \subseteq BitsLibres
      /\ bitmap' \in [Bits -> BOOLEAN]
      /\ \A c \in Bits : bitmap'[c] <=> bitmap[c] \/ c \in Tramo(B + 1, T - 1)
      /\ lista_fat' = l
      /\ op' = [pc |-> "guardar", nombre |-> n, nuevo |-> nuevo]
      /\ UNCHANGED <<metadata, bloques, caido>>
  BY <1>2 DEF EnSuLugar, AlGuardar
<1>4. /\ \A m, pcs : "reposo" \notin pcs => ~EnCurso(pcs, m)
      /\ \A m, pcs : EnCurso(pcs, m)' <=> "guardar" \in pcs /\ m = n
  BY <1>3 DEF EnCurso, Reposo
<1>5. Creados' = Creados
  BY <1>3 DEF Creados, Esta
<1>6. \A m \in Creados \ {n} : Reservados(m)' = Reservados(m)
  BY <1>3, <1>4, MismosBloques
<1>7. Reservados(n)' = Reservados(n) \union Tramo(B + 1, T - 1)
  <2>1. Donde(n)' = B /\ Cuantos(n)' = T
    BY <1>3, <1>4 DEF Donde, Cuantos
  <2>2. Reservados(n)' = Tramo(B, T)
    BY <2>1 DEF Reservados
  <2> QED
    BY <2>2, <1>2, <1>3 DEF Tramo
<1>8. \A m \in Creados : Reservados(m) \intersect Tramo(B + 1, T - 1) = {}
  BY <1>3, <1>4 DEF DInv, DiscoBien, BitmapAlDia, BitsLibres
<1>9. (lista_fat \in Seq(Fcb) /\ UnFcb(lista_fat))'
      /\ \A j \in DOMAIN l : l[j] = FcbLeido(l[j].nombre)'
  BY <1>3, ListaDespues
<1>t. TypeOK'
  <2>1. op' \in [pc: {"guardar", "guardar_mudado"}, nombre: Nombres, nuevo: Nat]
    BY <1>3
  <2> QED
    BY <1>3, <1>9, <2>1 DEF DInv, TypeOK
<1>a. FcbsFieles(lista_fat)'
  BY <1>3, <1>9 DEF FcbsFieles
<1>b. MetadataBien'
  BY <1>3, <1>4 DEF DInv, DiscoBien, MetadataBien, Esta
<1>c. Separados'
  <2> SUFFICES ASSUME NEW m \in Creados
               PROVE  /\ Reservados(m)' \subseteq Bits
                      /\ \A q \in Creados \ {m} :
                           Reservados(m)' \intersect Reservados(q)' = {}
    BY <1>5 DEF Separados
  <2>0. BitsLibres \subseteq Bits
    BY DEF BitsLibres
  <2>1. Reservados(m)' \subseteq Bits
    BY <2>0, <1>3, <1>6, <1>7 DEF DInv, DiscoBien, Separados
  <2>2. ASSUME NEW q \in Creados \ {m}
        PROVE  Reservados(m)' \intersect Reservados(q)' = {}
    <3>0. Reservados(m) \intersect Reservados(q) = {}
      BY DEF DInv, DiscoBien, Separados
    <3>1. CASE m = n
      BY <3>0, <3>1, <1>6, <1>7, <1>8
    <3>2. CASE q = n
      BY <3>0, <3>2, <1>6, <1>7, <1>8
    <3>3. CASE m # n /\ q # n
      BY <3>0, <3>3, <1>6
    <3> QED  BY <3>1, <3>2, <3>3
  <2> QED  BY <2>1, <2>2
<1>d. BitmapAlDia'
  <2> SUFFICES ASSUME NEW c \in Bits
               PROVE  bitmap'[c] <=> \E m \in Creados : c \in Reservados(m)'
    BY <1>4, <1>5 DEF BitmapAlDia
  <2>1. bitmap[c] <=> \E m \in Creados : c \in Reservados(m)
    BY <1>4 DEF DInv, DiscoBien, BitmapAlDia
  <2>2. bitmap'[c] <=> bitmap[c] \/ c \in Tramo(B + 1, T - 1)
    BY <1>3
  <2> QED
    BY <2>1, <2>2, <1>1, <1>6, <1>7
<1>e. Pendiente'
  <2>1. op'.pc = "guardar" /\ op'.nombre = n
    BY <1>3
  <2>2. /\ Esta(n)' /\ Apariciones(lista_fat, n)' # {}
        /\ (tamanio_en_bloques(metadata[n].tamanio) = 1)'
    BY <1>1, <1>3 DEF Esta, Apariciones
  <2> QED
    BY <2>1, <2>2 DEF Pendiente
<1> QED
  BY <1>t, <1>9, <1>a, <1>b, <1>c, <1>d, <1>e DEF DInv, DiscoBien

-----------------------------------------------------------------------------
(* Compaction *)

\* The files of a list of FCBs hold blocks the bitmap says are taken, each its own.
Ocupan(l) ==
  /\ \A i \in 1..Len(l) : /\ l[i].bloque \in Nat
                          /\ l[i].tamanio_en_bloques \in Nat \ {0}
                          /\ Tramo(l[i].bloque, l[i].tamanio_en_bloques) \subseteq Bits \ BitsLibres
  /\ \A i, j \in 1..Len(l) :
       i # j => Tramo(l[i].bloque, l[i].tamanio_en_bloques)
                  \intersect Tramo(l[j].bloque, l[j].tamanio_en_bloques) = {}

\* So the blocks counted for the others, one of the truncated file and those
\* that are free are no more than there are.
LEMMA Cabe ==
  ASSUME NEW l \in Seq(Fcb), NEW n, NEW p, Unica(l, n, p), Ocupan(l),
         NEW N \in Nat, Bits = 0..(N - 1)
  PROVE  /\ cantidad_bloques_libres \in Nat
         /\ BloquesDeOtros(l, n) \in Nat
         /\ BloquesDeOtros(l, n) + 1 + cantidad_bloques_libres <= N
<1> PICK k : k = Len(l) + 1
  OBVIOUS
<1>0. k \in 1..(Len(l) + 1) /\ p \in 1..Len(l) /\ Len(l) \in Nat
  BY DEF Unica
<1> DEFINE R == Recorridos(l, n, k)
           P == R \union {<<p, 1>>}
           U == Bits \ BitsLibres
           g == [x \in P |-> l[x[1]].bloque + x[2] - 1]
<1>1. IsFiniteSet(R) /\ BloquesDeOtros(l, n) = Cardinality(R) /\ Cardinality(R) \in Nat
  <2>1. IsFiniteSet(Recorridos(l, n, k)) /\ BloquesAntes(l, n, k) \in Nat
    BY <1>0, RecorridosFinitos
  <2> QED
    BY <2>1 DEF BloquesDeOtros, BloquesAntes
<1>2. IsFiniteSet(Bits) /\ Cardinality(Bits) = N
  <2>1. N - 1 \in Int /\ 0 \in Int
    OBVIOUS
  <2>2. IsFiniteSet(0..(N - 1)) /\ Cardinality(0..(N - 1)) = IF 0 > N - 1 THEN 0 ELSE N - 1 - 0 + 1
    BY <2>1, FS_Interval
  <2> QED  BY <2>2
<1>3. /\ IsFiniteSet(U) /\ IsFiniteSet(BitsLibres)
      /\ Cardinality(U) = N - cantidad_bloques_libres
      /\ cantidad_bloques_libres \in Nat
  <2>1. BitsLibres \in SUBSET Bits /\ Bits \cap BitsLibres = BitsLibres
    BY DEF BitsLibres
  <2>2. IsFiniteSet(BitsLibres) /\ Cardinality(BitsLibres) \in Nat
    BY <1>2, <2>1, FS_Subset, FS_CardinalityType
  <2>3. IsFiniteSet(U) /\ Cardinality(U) = N - Cardinality(BitsLibres)
    <3>1. /\ IsFiniteSet(Bits \ BitsLibres)
          /\ Cardinality(Bits \ BitsLibres) = Cardinality(Bits) - Cardinality(Bits \cap BitsLibres)
      BY <1>2, FS_Difference
    <3> QED  BY <3>1, <1>2, <2>1
  <2> QED
    BY <2>2, <2>3 DEF cantidad_bloques_libres
<1>4. \A x : x \in R <=> /\ x = <<x[1], x[2]>> /\ x[1] \in 1..Len(l)
                         /\ l[x[1]].nombre # n
                         /\ x[2] \in 1..l[x[1]].tamanio_en_bloques
  <2>1. 1..(k - 1) = 1..Len(l)
    BY <1>0
  <2> QED  BY <2>1, EnRecorridos
<1>5. Cardinality(P) = Cardinality(R) + 1 /\ IsFiniteSet(P)
  <2>1. <<p, 1>> \notin R
    <3> SUFFICES ASSUME <<p, 1>> \in R PROVE FALSE
      OBVIOUS
    <3> PICK x : x = <<p, 1>>
      OBVIOUS
    <3>1. x[1] = p /\ l[x[1]].nombre # n
      BY <1>4
    <3> QED  BY <3>1 DEF Unica
  <2> HIDE DEF R
  <2> QED  BY <1>1, <2>1, FS_AddElement
<1>6. ASSUME NEW x \in P
      PROVE  /\ x = <<x[1], x[2]>> /\ x[1] \in 1..Len(l)
             /\ x[2] \in 1..l[x[1]].tamanio_en_bloques
  <2>1. CASE x \in R
    BY <1>4, <2>1
  <2>2. CASE x = <<p, 1>>
    <3>1. l[p].tamanio_en_bloques \in Nat \ {0}
      BY <1>0 DEF Ocupan
    <3> QED  BY <2>2, <3>1, <1>0
  <2> QED  BY <2>1, <2>2
<1> HIDE DEF P, U
<1>7. ASSUME NEW x \in P
      PROVE  g[x] \in Tramo(l[x[1]].bloque, l[x[1]].tamanio_en_bloques) /\ g[x] \in U
             /\ g[x] = l[x[1]].bloque + x[2] - 1
  <2>1. x[1] \in 1..Len(l) /\ x[2] \in 1..l[x[1]].tamanio_en_bloques
    BY <1>6
  <2>2. /\ l[x[1]].bloque \in Nat /\ l[x[1]].tamanio_en_bloques \in Nat
        /\ Tramo(l[x[1]].bloque, l[x[1]].tamanio_en_bloques) \subseteq U
    BY <2>1 DEF Ocupan, U
  <2>3. g[x] = l[x[1]].bloque + x[2] - 1
    OBVIOUS
  <2>4. g[x] \in Tramo(l[x[1]].bloque, l[x[1]].tamanio_en_bloques)
    BY <2>1, <2>2, <2>3 DEF Tramo
  <2> QED  BY <2>2, <2>3, <2>4
<1>8. ASSUME NEW x \in P, NEW y \in P, g[x] = g[y]
      PROVE  x = y
  <2>1. x[1] = y[1]
    <3> SUFFICES ASSUME x[1] # y[1] PROVE FALSE
      OBVIOUS
    <3>1. Tramo(l[x[1]].bloque, l[x[1]].tamanio_en_bloques)
            \intersect Tramo(l[y[1]].bloque, l[y[1]].tamanio_en_bloques) = {}
      BY <1>6 DEF Ocupan
    <3>2. /\ g[x] \in Tramo(l[x[1]].bloque, l[x[1]].tamanio_en_bloques)
          /\ g[y] \in Tramo(l[y[1]].bloque, l[y[1]].tamanio_en_bloques)
      BY <1>7
    <3> QED  BY <3>1, <3>2, <1>8
  <2>2. /\ l[x[1]].bloque + x[2] - 1 = l[y[1]].bloque + y[2] - 1
        /\ l[x[1]].bloque \in Nat /\ x[2] \in Nat /\ y[2] \in Nat
    <3>1. x[1] \in 1..Len(l) /\ x[2] \in 1..l[x[1]].tamanio_en_bloques
          /\ y[1] \in 1..Len(l) /\ y[2] \in 1..l[y[1]].tamanio_en_bloques
      BY <1>6
    <3>2. l[x[1]].bloque \in Nat /\ l[x[1]].tamanio_en_bloques \in Nat
          /\ l[y[1]].tamanio_en_bloques \in Nat
      BY <3>1 DEF Ocupan
    <3> QED  BY <1>7, <1>8, <3>1, <3>2
  <2>3. x[2] = y[2]
    BY <2>1, <2>2
  <2> QED  BY <1>6, <2>1, <2>3
<1>9. g \in [P -> U]
  BY <1>7
<1> HIDE DEF g
<1>10. g \in Injection(P, U)
  BY <1>8, <1>9, Fun_IsInj
<1>11. Cardinality(P) <= Cardinality(U)
  BY <1>3, <1>10, FS_Injection
<1> HIDE DEF R
<1> QED
  BY <1>1, <1>3, <1>5, <1>11

\* Where a compaction leaves each file
AlCompactar(l, n, nuevo) ==
  /\ BitmapAlDia /\ Separados
  /\ op = Reposo
  /\ PedidoBien(l, n)
  /\ FcbLeido(n).tamanio = 0
  /\ tamanio_en_bloques(nuevo) - 1 \in 1..cantidad_bloques_libres
  /\ \A m \in Creados : Apariciones(l, m) # {}

LEMMA DondeQuedan ==
  ASSUME DInv, NEW n \in Nombres, NEW nuevo \in Nat, NEW l, AlCompactar(l, n, nuevo),
         NEW N \in Nat, Bits = 0..(N - 1)
  PROVE  LET A(i) == BloquesAntes(l, n, i)
             D == BloquesDeOtros(l, n)
             Suyos(i) == Tramo(A(i), l[i].tamanio_en_bloques)
             Otros == {i \in 1..Len(l) : l[i].nombre # n} IN
         /\ D \in Nat /\ D + tamanio_en_bloques(nuevo) <= N
         /\ \A i \in Otros : /\ A(i) \in Nat
                             /\ l[i].tamanio_en_bloques \in Nat \ {0}
                             /\ A(i) + l[i].tamanio_en_bloques <= D
         /\ \A i, j \in Otros : i # j => Suyos(i) \intersect Suyos(j) = {}
         /\ \A b \in 0..(D - 1) : \E i \in Otros : b \in Suyos(i)
<1> DEFINE p == Posicion(l, n)
           T == tamanio_en_bloques(nuevo)
<1>1. /\ l \in Seq(Fcb) /\ UnFcb(l) /\ FcbsFieles(l) /\ op = Reposo
      /\ p \in 1..Len(l) /\ l[p] = FcbLeido(n) /\ Unica(l, n, p) /\ Esta(n)
      /\ Len(l) \in Nat /\ DOMAIN l = 1..Len(l)
  <2>1. /\ l \in Seq(Fcb) /\ UnFcb(l) /\ FcbsFieles(l) /\ op = Reposo
        /\ p \in 1..Len(l) /\ l[p] = FcbLeido(n) /\ Esta(n)
        /\ \A i \in 1..Len(l) : l[i].nombre = n => i = p
    BY DEF AlCompactar, PedidoBien
  <2>2. l[p].nombre = n
    BY <2>1 DEF FcbLeido
  <2> QED  BY <2>1, <2>2 DEF Unica
<1>2. \A m : ~EnCurso({"asignar", "guardar_mudado"}, m) /\ ~EnCurso({"marcar", "quitar"}, m)
  BY <1>1 DEF EnCurso, Reposo
<1>3. ASSUME NEW i \in 1..Len(l)
      PROVE  /\ l[i].nombre \in Creados
             /\ l[i].bloque \in Nat /\ l[i].tamanio_en_bloques \in Nat \ {0}
             /\ Reservados(l[i].nombre) = Tramo(l[i].bloque, l[i].tamanio_en_bloques)
  <2> PICK m : m = l[i].nombre
    OBVIOUS
  <2>1. m \in Nombres /\ Esta(m) /\ l[i] = FcbLeido(m)
    BY <1>1, <1>2, FcbTipo DEF UnFcb, FcbsFieles
  <2>2. /\ metadata[m].tamanio \in Nat /\ metadata[m].bloque \in Bits /\ m \in Creados
        /\ FcbLeido(m) = [nombre |-> m, bloque |-> metadata[m].bloque,
                          tamanio |-> metadata[m].tamanio,
                          tamanio_en_bloques |-> tamanio_en_bloques(metadata[m].tamanio)]
        /\ Reservados(m) = Tramo(metadata[m].bloque,
                                 tamanio_en_bloques(metadata[m].tamanio))
    BY <1>1, <2>1, EnReposo DEF DInv
  <2>3. metadata[m].bloque \in Nat /\ tamanio_en_bloques(metadata[m].tamanio) \in Nat \ {0}
    BY <2>2, CeroEsBit, TamanioEnBloques
  <2> QED  BY <2>1, <2>2, <2>3
<1>4. Ocupan(l)
  <2>1. ASSUME NEW i \in 1..Len(l)
        PROVE  Tramo(l[i].bloque, l[i].tamanio_en_bloques) \subseteq Bits \ BitsLibres
    <3>1. l[i].nombre \in Creados
          /\ Reservados(l[i].nombre) = Tramo(l[i].bloque, l[i].tamanio_en_bloques)
      BY <1>3
    <3>2. Reservados(l[i].nombre) \subseteq Bits
      BY <3>1 DEF AlCompactar, Separados
    <3>3. \A c \in Reservados(l[i].nombre) : c \notin BitsLibres
      BY <1>2, <3>1, <3>2 DEF AlCompactar, BitmapAlDia, BitsLibres
    <3> QED  BY <3>1, <3>2, <3>3
  <2>2. ASSUME NEW i \in 1..Len(l), NEW j \in 1..Len(l), i # j
        PROVE  Tramo(l[i].bloque, l[i].tamanio_en_bloques)
                 \intersect Tramo(l[j].bloque, l[j].tamanio_en_bloques) = {}
    <3>1. l[i].nombre # l[j].nombre
      BY <1>1, <2>2 DEF UnFcb
    <3> QED
      BY <1>3, <3>1 DEF AlCompactar, Separados
  <2> QED
    BY <1>3, <2>1, <2>2 DEF Ocupan
<1>5. /\ cantidad_bloques_libres \in Nat /\ BloquesDeOtros(l, n) \in Nat
      /\ BloquesDeOtros(l, n) + 1 + cantidad_bloques_libres <= N
  <2> PICK q : q = p
    OBVIOUS
  <2>1. Unica(l, n, q)
    BY <1>1
  <2> QED  BY <1>1, <1>4, <2>1, Cabe
<1>6. T \in Nat /\ T - 1 <= cantidad_bloques_libres
  BY <1>5, TamanioEnBloques DEF AlCompactar
<1>7. ASSUME NEW i \in 1..Len(l), l[i].nombre # n
      PROVE  /\ BloquesAntes(l, n, i) \in Nat
             /\ l[i].tamanio_en_bloques \in Nat \ {0}
             /\ BloquesAntes(l, n, i) + l[i].tamanio_en_bloques <= BloquesDeOtros(l, n)
  <2>1. i \in 1..(Len(l) + 1)
    BY <1>1
  <2>2. BloquesAntes(l, n, i) \in Nat
    BY <1>1, <2>1, RecorridosFinitos
  <2>3. BloquesAntes(l, n, i) + l[i].tamanio_en_bloques <= BloquesDeOtros(l, n)
    <3> PICK k : k = Len(l) + 1
      OBVIOUS
    <3>1. k \in 1..(Len(l) + 1) /\ i < k
      BY <1>1
    <3>2. BloquesAntes(l, n, i) + l[i].tamanio_en_bloques <= BloquesAntes(l, n, k)
      BY <1>1, <1>7, <3>1, UnoTrasOtro
    <3> QED  BY <3>2 DEF BloquesDeOtros
  <2> QED  BY <1>3, <2>2, <2>3
<1>8. ASSUME NEW i \in 1..Len(l), NEW j \in 1..Len(l), i < j,
             l[i].nombre # n, l[j].nombre # n
      PROVE  Tramo(BloquesAntes(l, n, i), l[i].tamanio_en_bloques)
               \intersect Tramo(BloquesAntes(l, n, j), l[j].tamanio_en_bloques) = {}
  <2>1. j \in 1..(Len(l) + 1)
    BY <1>1
  <2>2. BloquesAntes(l, n, i) + l[i].tamanio_en_bloques <= BloquesAntes(l, n, j)
    BY <1>1, <1>8, <2>1, UnoTrasOtro
  <2>3. BloquesAntes(l, n, i) \in Nat /\ BloquesAntes(l, n, j) \in Nat
        /\ l[i].tamanio_en_bloques \in Nat /\ l[j].tamanio_en_bloques \in Nat
    BY <1>7, <1>8
  <2> QED  BY <2>2, <2>3 DEF Tramo
<1>9. ASSUME NEW b \in 0..(BloquesDeOtros(l, n) - 1)
      PROVE  \E i \in 1..Len(l) : l[i].nombre # n
               /\ b \in Tramo(BloquesAntes(l, n, i), l[i].tamanio_en_bloques)
  BY <1>1, Cubiertos
<1>10. \A i, j \in 1..Len(l) :
         i # j /\ l[i].nombre # n /\ l[j].nombre # n =>
           Tramo(BloquesAntes(l, n, i), l[i].tamanio_en_bloques)
             \intersect Tramo(BloquesAntes(l, n, j), l[j].tamanio_en_bloques) = {}
  <2> SUFFICES ASSUME NEW i \in 1..Len(l), NEW j \in 1..Len(l),
                      i # j, l[i].nombre # n, l[j].nombre # n
               PROVE  Tramo(BloquesAntes(l, n, i), l[i].tamanio_en_bloques)
                        \intersect Tramo(BloquesAntes(l, n, j), l[j].tamanio_en_bloques) = {}
    OBVIOUS
  <2>1. i < j \/ j < i
    BY <1>1
  <2> QED  BY <2>1, <1>8
<1>11. BloquesDeOtros(l, n) + T <= N
  BY <1>5, <1>6
<1> HIDE DEF T
<1>12. \A i \in 1..Len(l) : l[i].nombre # n =>
         /\ BloquesAntes(l, n, i) \in Nat
         /\ l[i].tamanio_en_bloques \in Nat \ {0}
         /\ BloquesAntes(l, n, i) + l[i].tamanio_en_bloques <= BloquesDeOtros(l, n)
  BY <1>7
<1>13. \A b \in 0..(BloquesDeOtros(l, n) - 1) : \E i \in 1..Len(l) :
         l[i].nombre # n /\ b \in Tramo(BloquesAntes(l, n, i), l[i].tamanio_en_bloques)
  BY <1>9
<1> QED
  BY <1>5, <1>10, <1>11, <1>12, <1>13 DEF T

LEMMA PasoCompactar ==
  ASSUME SinBitsDeMas,
         DInv, NEW n \in Nombres, NEW nuevo \in Nat, NEW l,
         AlCompactar(l, n, nuevo), Compactar(l, n, nuevo), UNCHANGED caido
  PROVE  DInv'
<1> PICK N \in Nat \ {0} : Bits = 0..(N - 1)
  BY BitsSonIntervalo
<1> PICK p, T, D, f : p = Posicion(l, n) /\ T = tamanio_en_bloques(nuevo)
                      /\ D = BloquesDeOtros(l, n) /\ f = l[p]
  OBVIOUS
<1> PICK A : A = [i \in 1..Len(l) |-> BloquesAntes(l, n, i)]
  OBVIOUS
<1> DEFINE Suyos(i) == Tramo(A[i], l[i].tamanio_en_bloques)
           Otros == {i \in 1..Len(l) : l[i].nombre # n}
           Fp == [l[p] EXCEPT !.bloque = D, !.tamanio = nuevo, !.tamanio_en_bloques = T]
           Fo(i) == [l[i] EXCEPT !.bloque = A[i]]
<1>1. /\ l \in Seq(Fcb) /\ UnFcb(l) /\ FcbsFieles(l) /\ op = Reposo
      /\ p \in 1..Len(l) /\ f = FcbLeido(n) /\ Esta(n) /\ n \in Creados
      /\ Apariciones(l, n) # {}
      /\ \A i \in 1..Len(l) : l[i].nombre = n => i = p
      /\ metadata[n].tamanio = 0
      /\ \A m \in Creados : Apariciones(l, m) # {}
  BY DEF AlCompactar, PedidoBien, FcbLeido
<1>2. Len(l) \in Nat /\ DOMAIN l = 1..Len(l) /\ f.nombre = n /\ f \in Fcb /\ Unica(l, n, p)
  <2>1. f.nombre = n
    BY <1>1 DEF FcbLeido
  <2>2. l[p] \in Fcb
    BY <1>1, FcbTipo
  <2>3. Unica(l, n, p)
    BY <2>1, <1>1 DEF Unica
  <2> QED  BY <2>1, <2>2, <2>3, <1>1
<1>3. /\ D \in Nat /\ D + T <= N
      /\ \A i \in Otros : /\ A[i] \in Nat /\ A[i] = BloquesAntes(l, n, i)
                          /\ l[i].tamanio_en_bloques \in Nat \ {0}
                          /\ A[i] + l[i].tamanio_en_bloques <= D
      /\ \A i, j \in Otros : i # j => Suyos(i) \intersect Suyos(j) = {}
      /\ \A b \in 0..(D - 1) : \E i \in Otros : b \in Suyos(i)
  <2>1. N \in Nat
    OBVIOUS
  <2>2. \A i \in Otros : A[i] = BloquesAntes(l, n, i)
    OBVIOUS
  <2> QED  BY <2>1, <2>2, DondeQuedan
<1>4. T \in Nat \ {0} /\ D \in Bits
  <2>1. T \in Nat \ {0}
    BY TamanioEnBloques
  <2> QED  BY <2>1, <1>3
<1>5. \A i \in Otros : A[i] \in Bits
  BY <1>3, <1>4
<1>6. /\ DOMAIN lista_fat' = 1..Len(l)
      /\ lista_fat'[p] = Fp
      /\ \A i \in Otros : lista_fat'[i] = Fo(i)
      /\ lista_fat' = [i \in 1..Len(l) |-> lista_fat'[i]]
  <2>1. lista_fat' =
          [i \in DOMAIN l |->
             IF l[i].nombre # n THEN [l[i] EXCEPT !.bloque = BloquesAntes(l, n, i)]
             ELSE IF i # p THEN l[i]
             ELSE Fp]
    BY DEF Compactar
  <2>2. \A i \in Otros : Fo(i) = [l[i] EXCEPT !.bloque = BloquesAntes(l, n, i)]
    BY <1>3
  <2>3. p \in DOMAIN l /\ l[p].nombre = n /\ \A i \in Otros : i \in DOMAIN l
    BY <1>1, <1>2
  <2> HIDE DEF Fp, Fo
  <2>4. DOMAIN lista_fat' = 1..Len(l) /\ lista_fat' = [i \in 1..Len(l) |-> lista_fat'[i]]
    BY <2>1, <1>2
  <2>5. lista_fat'[p] = Fp
    BY <2>1, <2>3
  <2>6. \A i \in Otros : lista_fat'[i] = Fo(i)
    BY <2>1, <2>2, <2>3
  <2> QED  BY <2>4, <2>5, <2>6
<1>7. /\ metadata' =
           [m \in Nombres |->
              IF m # n /\ Apariciones(l, m) # {}
              THEN [metadata[m] EXCEPT !.bloque = BloquesAntes(l, n, Max(Apariciones(l, m)))]
              ELSE metadata[m]]
      /\ bitmap' = [b \in Bits |-> b \in Tramo(0, D + T)]
      /\ bloques' = BloquesCompactados(l, n, f)
      /\ op' = [pc |-> "guardar_mudado", nombre |-> n, nuevo |-> nuevo]
      /\ caido' = caido
  BY DEF Compactar, BitsCompactados
<1> DEFINE Nuevo(i) == [nombre |-> l[i].nombre, bloque |-> A[i], tamanio |-> l[i].tamanio,
                        tamanio_en_bloques |-> l[i].tamanio_en_bloques]
<1>8. ASSUME NEW i \in Otros
      PROVE  /\ l[i].nombre \in Nombres \ {n} /\ Esta(l[i].nombre) /\ l[i].nombre \in Creados
             /\ metadata[l[i].nombre] = [bloque |-> l[i].bloque, tamanio |-> l[i].tamanio]
             /\ l[i].tamanio_en_bloques = tamanio_en_bloques(l[i].tamanio)
             /\ l[i].tamanio \in Nat
             /\ lista_fat'[i] = Nuevo(i)
             /\ metadata'[l[i].nombre] = [bloque |-> A[i], tamanio |-> l[i].tamanio]
  <2> PICK m : m = l[i].nombre
    OBVIOUS
  <2>1. i \in 1..Len(l) /\ m \in Nombres \ {n} /\ l[i] \in Fcb
    BY <1>1, FcbTipo
  <2>2. Esta(m) /\ l[i] = FcbLeido(m)
    BY <1>1, <1>2, <2>1 DEF UnFcb, FcbsFieles, EnCurso, Reposo
  <2>3. /\ metadata[m].tamanio \in Nat /\ metadata[m].bloque \in Bits /\ m \in Creados
        /\ FcbLeido(m) = [nombre |-> m, bloque |-> metadata[m].bloque,
                          tamanio |-> metadata[m].tamanio,
                          tamanio_en_bloques |-> tamanio_en_bloques(metadata[m].tamanio)]
    BY <1>1, <2>1, <2>2, EnReposo DEF DInv
  <2>4. metadata[m] = [bloque |-> metadata[m].bloque, tamanio |-> metadata[m].tamanio]
    BY <2>1 DEF DInv, TypeOK
  <2>5. metadata[m] = [bloque |-> l[i].bloque, tamanio |-> l[i].tamanio]
        /\ l[i].tamanio_en_bloques = tamanio_en_bloques(l[i].tamanio)
        /\ l[i].tamanio \in Nat
    BY <2>2, <2>3, <2>4
  <2>6. lista_fat'[i] = Nuevo(i)
    <3>1. lista_fat'[i] = [l[i] EXCEPT !.bloque = A[i]]
      BY <1>6
    <3>2. \A h \in Fcb : \A c : [h EXCEPT !.bloque = c] =
            [nombre |-> h.nombre, bloque |-> c, tamanio |-> h.tamanio,
             tamanio_en_bloques |-> h.tamanio_en_bloques]
      BY DEF Fcb
    <3> QED  BY <3>1, <3>2, <2>1
  <2>7. metadata'[m] = [bloque |-> A[i], tamanio |-> l[i].tamanio]
    <3>1. Unica(l, m, i)
      BY <1>1, <1>2, <2>1 DEF Unica, UnFcb
    <3>2. Apariciones(l, m) = {i} /\ Max(Apariciones(l, m)) = i
      BY <1>1, <3>1, PosicionUnica
    <3>3. metadata'[m] = [metadata[m] EXCEPT !.bloque = A[i]]
      BY <1>3, <1>7, <2>1, <3>2
    <3> QED  BY <2>5, <3>3
  <2> QED  BY <2>1, <2>2, <2>3, <2>5, <2>6, <2>7
<1>9. /\ Fp = [nombre |-> n, bloque |-> D, tamanio |-> nuevo, tamanio_en_bloques |-> T]
      /\ Fp \in Fcb
  <2>1. EsFcb(f, n, f.bloque, f.tamanio, f.tamanio_en_bloques)
    BY <1>2 DEF Fcb, EsFcb
  <2> PICK b, t, c : b = f.bloque /\ t = f.tamanio /\ c = f.tamanio_en_bloques
    OBVIOUS
  <2>2. EsFcb(f, n, b, t, c)
    BY <2>1
  <2>3. EsFcb(Mudado(f, D, nuevo, T), n, D, nuevo, T)
    BY <2>2, FcbMudado
  <2>4. Fp = Mudado(f, D, nuevo, T)
    BY DEF Mudado
  <2>5. Fp = [nombre |-> n, bloque |-> D, tamanio |-> nuevo, tamanio_en_bloques |-> T]
    <3> HIDE DEF Fp
    <3> QED  BY <2>3, <2>4 DEF EsFcb
  <2> HIDE DEF Fp
  <2> QED
    BY <2>5, <1>4 DEF Fcb
<1> HIDE DEF Fp, Fo
<1>10. \A m \in Nombres :
         \/ m = n
         \/ m \in Creados /\ \E i \in Otros : l[i].nombre = m
         \/ /\ m \notin Creados /\ ~Esta(m) /\ metadata'[m] = metadata[m]
            /\ \A i \in Otros : l[i].nombre # m
  <2> SUFFICES ASSUME NEW m \in Nombres, m # n
               PROVE  \/ m \in Creados /\ \E i \in Otros : l[i].nombre = m
                      \/ /\ m \notin Creados /\ ~Esta(m) /\ metadata'[m] = metadata[m]
                         /\ \A i \in Otros : l[i].nombre # m
    OBVIOUS
  <2>1. CASE Esta(m)
    <3>1. m \in Creados
      BY <1>1, <2>1, EnReposo DEF DInv
    <3>2. Apariciones(l, m) # {}
      BY <1>1, <3>1
    <3> QED  BY <3>1, <3>2, <1>2 DEF Apariciones
  <2>2. CASE ~Esta(m)
    <3>1. \A i \in DOMAIN l : l[i].nombre # m
      BY <1>1, <2>2 DEF UnFcb
    <3>2. Apariciones(l, m) = {}
      BY <3>1 DEF Apariciones
    <3>3. metadata'[m] = metadata[m]
      BY <1>7, <3>2
    <3> QED  BY <2>2, <3>1, <3>3, <1>2 DEF Creados
  <2> QED  BY <2>1, <2>2
<1>11. metadata'[n] = metadata[n]
  BY <1>7
<1>12. /\ \A m, pcs : "reposo" \notin pcs => ~EnCurso(pcs, m)
       /\ \A m, pcs : EnCurso(pcs, m)' <=> "guardar_mudado" \in pcs /\ m = n
  BY <1>1, <1>7 DEF EnCurso, Reposo
<1>13. \A m \in Nombres : Esta(m)' <=> Esta(m)
  <2> SUFFICES ASSUME NEW m \in Nombres, m # n, m \in Creados, NEW i \in Otros, l[i].nombre = m
               PROVE  Esta(m)' /\ Esta(m)
    BY <1>10, <1>11 DEF Esta
  <2>0. /\ metadata'[l[i].nombre] = [bloque |-> A[i], tamanio |-> l[i].tamanio]
        /\ l[i].tamanio \in Nat /\ Esta(l[i].nombre)
    BY <1>8
  <2>1. metadata'[m].tamanio \in Nat /\ Esta(m)
    BY <2>0
  <2> QED  BY <2>1 DEF Esta, SinArchivo, Ausente
<1>14. \A m \in Nombres : (m \in Creados)' <=> m \in Creados
  <2> SUFFICES ASSUME NEW m \in Nombres, m # n, m \in Creados, NEW i \in Otros, l[i].nombre = m
               PROVE  (m \in Creados)'
    BY <1>10, <1>11, <1>13 DEF Creados
  <2>0. /\ metadata'[l[i].nombre] = [bloque |-> A[i], tamanio |-> l[i].tamanio]
        /\ A[i] \in Nat
    BY <1>3, <1>8
  <2>1. metadata'[m].bloque \in Nat
    BY <2>0
  <2>2. metadata'[m].bloque # SinBloque
    BY <2>1 DEF SinBloque
  <2> QED  BY <2>2, <1>13 DEF Creados
<1>15. Creados' = Creados /\ Creados \subseteq Nombres
  BY <1>14 DEF Creados
<1>16. ASSUME NEW i \in Otros
       PROVE  Reservados(l[i].nombre)' = Suyos(i)
  <2> PICK m : m = l[i].nombre
    OBVIOUS
  <2>1. /\ m # n /\ metadata'[m] = [bloque |-> A[i], tamanio |-> l[i].tamanio]
        /\ l[i].tamanio_en_bloques = tamanio_en_bloques(l[i].tamanio)
    BY <1>8
  <2>2. Donde(m)' = A[i] /\ Cuantos(m)' = l[i].tamanio_en_bloques
    BY <2>1, <1>12 DEF Donde, Cuantos
  <2> QED  BY <2>2 DEF Reservados
<1>17. (Unica(lista_fat, n, p))' /\ lista_fat' \in Seq(Fcb) /\ Len(lista_fat') = Len(l)
  <2>1. \A i \in Otros : lista_fat'[i] \in Fcb /\ lista_fat'[i].nombre = l[i].nombre
    <3> SUFFICES ASSUME NEW i \in Otros
                 PROVE  lista_fat'[i] \in Fcb /\ lista_fat'[i].nombre = l[i].nombre
      OBVIOUS
    <3>1. /\ lista_fat'[i] = Nuevo(i) /\ l[i].nombre \in Nombres /\ l[i].tamanio \in Nat
          /\ A[i] \in Bits /\ l[i].tamanio_en_bloques \in Nat
      BY <1>3, <1>5, <1>8
    <3> QED  BY <3>1 DEF Fcb
  <2>2. \A i \in 1..Len(l) : i \in Otros \/ i = p
    BY <1>1
  <2>3. \A i \in 1..Len(l) : lista_fat'[i] \in Fcb
    BY <2>1, <2>2, <1>6, <1>9
  <2>4. lista_fat' \in [1..Len(l) -> Fcb]
    BY <2>3, <1>6
  <2>5. lista_fat' \in Seq(Fcb) /\ Len(lista_fat') = Len(l)
    BY <2>4, <1>2, SeqDef
  <2>6. lista_fat'[p].nombre = n
    BY <1>6, <1>9
  <2> QED  BY <2>1, <2>2, <2>5, <2>6, <1>1 DEF Unica
<1>18. Reservados(n)' = Tramo(D, T)
  <2>1. Posicion(lista_fat, n)' = p
    <3> PICK q : q = lista_fat'
      OBVIOUS
    <3>1. Unica(q, n, p) /\ q \in Seq(Fcb)
      BY <1>17 DEF Unica
    <3>2. Posicion(q, n) = p
      BY <3>1, PosicionUnica
    <3> QED  BY <3>2 DEF Posicion, Apariciones
  <2>2. Donde(n)' = D /\ Cuantos(n)' = T
    BY <2>1, <1>6, <1>7, <1>9, <1>12 DEF Donde, Cuantos
  <2> QED  BY <2>2 DEF Reservados
<1>19. \A m \in Creados : m = n \/ \E i \in Otros : l[i].nombre = m /\ Reservados(m)' = Suyos(i)
  <2> SUFFICES ASSUME NEW m \in Creados, m # n
               PROVE  \E i \in Otros : l[i].nombre = m /\ Reservados(m)' = Suyos(i)
    OBVIOUS
  <2> PICK i \in Otros : l[i].nombre = m
    BY <1>10, <1>15
  <2> QED  BY <1>16
<1>20. \A i \in Otros : Suyos(i) \subseteq 0..(D - 1)
  BY <1>3 DEF Tramo
<1>21. Tramo(D, T) \subseteq D..(N - 1) /\ Tramo(0, D + T) = (0..(D - 1)) \union Tramo(D, T)
  BY <1>3, <1>4 DEF Tramo
<1> HIDE DEF Suyos
<1>t. TypeOK'
  <2>1. op' \in [pc: {"guardar", "guardar_mudado"}, nombre: Nombres, nuevo: Nat]
    BY <1>7
  <2>2. bitmap' \in [Bits -> BOOLEAN]
    BY <1>7
  <2>3. metadata' \in [Nombres -> [bloque: Bits \union {SinBloque}, tamanio: Nat \union {Ausente}]]
    <3> DEFINE S == [bloque: Bits \union {SinBloque}, tamanio: Nat \union {Ausente}]
    <3>1. \A m \in Nombres : metadata[m] \in S
      BY DEF DInv, TypeOK
    <3>2. \A m \in Nombres : metadata'[m] \in S
      <4> SUFFICES ASSUME NEW m \in Nombres, m # n, NEW i \in Otros, l[i].nombre = m
                   PROVE  metadata'[m] \in S
        BY <3>1, <1>10, <1>11
      <4>1. /\ metadata'[l[i].nombre] = [bloque |-> A[i], tamanio |-> l[i].tamanio]
            /\ l[i].tamanio \in Nat /\ A[i] \in Bits
        BY <1>5, <1>8
      <4> QED  BY <4>1
    <3> HIDE DEF S
    <3>3. metadata' = [m \in Nombres |-> metadata'[m]]
      BY <1>7
    <3>4. metadata' \in [Nombres -> S]
      BY <3>2, <3>3
    <3> QED  BY <3>4 DEF S
  <2>4. bloques' \in [Bytes -> {Cero} \union (Nombres \X Nat)]
    <3> DEFINE V == {Cero} \union (Nombres \X Nat)
               fin == BLOCK_SIZE * D
               Leido(b) == bloques[BLOCK_SIZE * f.bloque + (b - fin)]
               Copia(b) == b - fin < BLOCK_SIZE * f.tamanio_en_bloques
    <3>1. bloques' = [b \in Bytes |-> IF b < fin THEN bloques[b]
                                      ELSE IF Copia(b) THEN Leido(b) ELSE Cero]
      BY <1>7 DEF BloquesCompactados
    <3>2. bloques \in [Bytes -> V] /\ Cero \in V
      BY DEF DInv, TypeOK
    <3>3. BLOCK_SIZE \in Nat \ {0} /\ BLOCK_COUNT \in Nat /\ Bytes \subseteq Nat
      BY DialFsAssumption, Constantes
    <3>4. f.bloque \in 0..(BLOCK_COUNT - 1) /\ f.tamanio_en_bloques = 1
      <4>1. metadata[n].bloque \in Bits /\ f.bloque = metadata[n].bloque
            /\ f.tamanio_en_bloques = tamanio_en_bloques(metadata[n].tamanio)
        BY <1>1, EnReposo DEF DInv
      <4> QED  BY <4>1, <1>1, BitsExactos, TamanioEnBloques
    <3>5. ASSUME NEW b \in Bytes, ~(b < fin), Copia(b)
          PROVE  BLOCK_SIZE * f.bloque + (b - fin) \in Bytes
      <4> PICK x, d : x = f.bloque /\ d = b - fin
        OBVIOUS
      <4>0. fin \in Nat /\ b \in Nat
        BY <1>3, <3>3
      <4>1. x \in 0..(BLOCK_COUNT - 1) /\ d \in Nat /\ d < BLOCK_SIZE
        BY <3>3, <3>4, <3>5, <4>0
      <4>3. BLOCK_SIZE * x + d \in Bytes
        BY <4>1, ByteDeBloque
      <4> QED  BY <4>3
    <3> HIDE DEF V, fin
    <3>6. \A b \in Bytes : (IF b < fin THEN bloques[b]
                            ELSE IF Copia(b) THEN Leido(b) ELSE Cero) \in V
      BY <3>2, <3>5
    <3>7. bloques' \in [Bytes -> V]
      BY <3>1, <3>6
    <3> QED  BY <3>7 DEF V
  <2> QED
    BY <2>1, <2>2, <2>3, <2>4, <1>7, <1>17 DEF DInv, TypeOK
<1>a. UnFcb(lista_fat)' /\ FcbsFieles(lista_fat)'
  <2>1. \A i \in 1..Len(l) : i \in Otros \/ i = p
    BY <1>1
  <2>2. \A i \in 1..Len(l) : lista_fat'[i].nombre = l[i].nombre /\ l[i].nombre \in Nombres
    <3> SUFFICES ASSUME NEW i \in 1..Len(l)
                 PROVE  lista_fat'[i].nombre = l[i].nombre /\ l[i].nombre \in Nombres
      OBVIOUS
    <3>1. CASE i \in Otros
      <4>1. lista_fat'[i] = Nuevo(i) /\ l[i].nombre \in Nombres
        BY <3>1, <1>8
      <4> QED  BY <4>1
    <3>2. CASE i = p
      BY <3>2, <1>2, <1>6, <1>9
    <3> QED  BY <3>1, <3>2, <2>1
  <2>3. UnFcb(lista_fat)'
    BY <2>2, <1>1, <1>2, <1>6, <1>13 DEF UnFcb
  <2>4. ASSUME NEW i \in Otros
        PROVE  (lista_fat[i] = FcbLeido(lista_fat[i].nombre))'
    <3> PICK m : m = l[i].nombre
      OBVIOUS
    <3>1. /\ metadata'[m] = [bloque |-> A[i], tamanio |-> l[i].tamanio]
          /\ l[i].tamanio_en_bloques = tamanio_en_bloques(l[i].tamanio)
          /\ lista_fat'[i] = Nuevo(i) /\ A[i] \in Nat
      BY <1>3, <1>8
    <3>2. A[i] # SinBloque
      BY <3>1 DEF SinBloque
    <3>3. lista_fat'[i].nombre = m
      BY <3>1
    <3> QED  BY <3>1, <3>2, <3>3 DEF FcbLeido
  <2> QED
    BY <2>1, <2>3, <2>4, <1>6, <1>9, <1>12 DEF FcbsFieles
<1>b. MetadataBien'
  <2> SUFFICES ASSUME NEW m \in Nombres, Esta(m)'
               PROVE  metadata'[m].tamanio \in Nat /\ metadata'[m].bloque # SinBloque
    BY DEF MetadataBien
  <2>1. Esta(m) /\ m \in Creados
    BY <1>1, <1>13, EnReposo DEF DInv
  <2>2. (m \in Creados)'
    BY <2>1, <1>14
  <2>3. CASE m = n
    BY <2>2, <2>3, <1>1, <1>11 DEF Creados
  <2>4. CASE m # n
    <3> PICK i \in Otros : l[i].nombre = m
      BY <2>1, <2>4, <1>10
    <3>1. metadata'[l[i].nombre] = [bloque |-> A[i], tamanio |-> l[i].tamanio]
          /\ l[i].tamanio \in Nat
      BY <1>8
    <3> QED  BY <2>2, <3>1 DEF Creados
  <2> QED  BY <2>3, <2>4
<1>c. Separados'
  <2> SUFFICES ASSUME NEW m \in Creados
               PROVE  /\ Reservados(m)' \subseteq Bits
                      /\ \A q \in Creados \ {m} :
                           Reservados(m)' \intersect Reservados(q)' = {}
    BY <1>15 DEF Separados
  <2>1. Reservados(m)' \subseteq Bits
    <3>1. CASE m = n
      BY <3>1, <1>3, <1>18, <1>21
    <3>2. CASE m # n
      <4>1. Reservados(m)' \subseteq 0..(D - 1)
        BY <3>2, <1>19, <1>20
      <4>2. 0..(D - 1) \subseteq 0..(N - 1)
        BY <1>3, <1>4
      <4> QED  BY <4>1, <4>2
    <3> QED  BY <3>1, <3>2
  <2>2. ASSUME NEW q \in Creados \ {m}
        PROVE  Reservados(m)' \intersect Reservados(q)' = {}
    <3>1. (0..(D - 1)) \intersect (D..(N - 1)) = {}
      BY <1>3
    <3>2. CASE m = n
      <4>1. Reservados(q)' \subseteq 0..(D - 1)
        BY <3>2, <1>19, <1>20
      <4> QED  BY <3>1, <3>2, <4>1, <1>18, <1>21
    <3>3. CASE q = n
      <4>1. Reservados(m)' \subseteq 0..(D - 1)
        BY <3>3, <1>19, <1>20
      <4> QED  BY <3>1, <3>3, <4>1, <1>18, <1>21
    <3>4. CASE m # n /\ q # n
      <4> PICK i \in Otros : l[i].nombre = m /\ Reservados(m)' = Suyos(i)
        BY <3>4, <1>19
      <4> PICK j \in Otros : l[j].nombre = q /\ Reservados(q)' = Suyos(j)
        BY <3>4, <1>19
      <4>1. i # j
        OBVIOUS
      <4> QED  BY <4>1, <1>3
    <3> QED  BY <3>2, <3>3, <3>4
  <2> QED  BY <2>1, <2>2
<1>d. BitmapAlDia'
  <2> SUFFICES ASSUME NEW c \in Bits
               PROVE  bitmap'[c] <=> \E m \in Creados : c \in Reservados(m)'
    BY <1>12, <1>15 DEF BitmapAlDia
  <2>1. bitmap'[c] <=> c \in 0..(D - 1) \/ c \in Tramo(D, T)
    BY <1>7, <1>21
  <2>2. ASSUME c \in 0..(D - 1)
        PROVE  \E m \in Creados : c \in Reservados(m)'
    <3> PICK i \in Otros : c \in Suyos(i)
      BY <1>3, <2>2
    <3>1. l[i].nombre \in Creados /\ Reservados(l[i].nombre)' = Suyos(i)
      BY <1>8, <1>16
    <3> QED  BY <3>1
  <2>3. ASSUME NEW m \in Creados, c \in Reservados(m)'
        PROVE  c \in 0..(D - 1) \/ c \in Tramo(D, T)
    BY <2>3, <1>18, <1>19, <1>20
  <2> QED  BY <2>1, <2>2, <2>3, <1>1, <1>18
<1>e. Pendiente'
  <2>1. op'.pc = "guardar_mudado" /\ op'.nombre = n /\ op'.nuevo = nuevo
    BY <1>7
  <2>2. /\ Esta(n)' /\ metadata'[n].tamanio = 0
    BY <1>1, <1>11, <1>13
  <2>3. Apariciones(lista_fat, n)' = {p} /\ Posicion(lista_fat, n)' = p
    <3> PICK q : q = lista_fat'
      OBVIOUS
    <3>1. Unica(q, n, p) /\ q \in Seq(Fcb)
      BY <1>17 DEF Unica
    <3>2. Apariciones(q, n) = {p} /\ Posicion(q, n) = p
      BY <3>1, PosicionUnica
    <3> QED  BY <3>2 DEF Posicion, Apariciones
  <2>4. /\ lista_fat'[p].bloque \in Bits /\ lista_fat'[p].tamanio = nuevo
        /\ lista_fat'[p].tamanio_en_bloques = tamanio_en_bloques(nuevo)
    BY <1>4, <1>6, <1>9
  <2> QED
    BY <2>1, <2>2, <2>3, <2>4 DEF Pendiente
<1> QED
  BY <1>t, <1>a, <1>b, <1>c, <1>d, <1>e DEF DInv, DiscoBien

-----------------------------------------------------------------------------
(* Every step *)

LEMMA PasoTruncar ==
  ASSUME SinBitsDeMas, DInv, SoloDatos, NEW n \in Nombres, NEW nuevo \in Nat,
         Truncar(n, nuevo)
  PROVE  DInv'
<1> PICK l, f, T : l = ConFcb(n) /\ f = l[Posicion(l, n)] /\ T = tamanio_en_bloques(nuevo)
  OBVIOUS
<1> DEFINE a == PorAgregar(f, nuevo)
           fin == f.bloque + f.tamanio_en_bloques
<1>1. Pedible(n) /\ op = Reposo /\ TruncadoCubierto(f, nuevo) /\ UNCHANGED caido
  BY DEF Truncar, Pedible, Libre
<1>2. PedidoBien(l, n)
  BY <1>1, ConFcbBien DEF DInv
<1>3. f = FcbLeido(n) /\ Esta(n)
  BY <1>2 DEF PedidoBien
<1>4. /\ f.tamanio \in Nat /\ f.tamanio_en_bloques = tamanio_en_bloques(f.tamanio)
      /\ f.bloque \in Nat
  <2>1. /\ metadata[n].tamanio \in Nat /\ metadata[n].bloque \in Bits
        /\ FcbLeido(n) = [nombre |-> n, bloque |-> metadata[n].bloque,
                          tamanio |-> metadata[n].tamanio,
                          tamanio_en_bloques |-> tamanio_en_bloques(metadata[n].tamanio)]
    BY <1>1, <1>3, EnReposo DEF DInv
  <2>2. metadata[n].bloque \in Nat
    BY <2>1, CeroEsBit
  <2> QED  BY <2>1, <2>2, <1>3
<1>5. /\ f.tamanio_en_bloques = 1 /\ T \in Nat \ {0}
      /\ \/ f.tamanio = 0 /\ a = T - 1
         \/ T = 1 /\ a \in {-1, 0} /\ f.bloque + 1 \notin Bits \ BitsLibres
  BY <1>1, <1>4, Agrega
<1> HIDE DEF a
<1>6. fin = f.bloque + 1
  BY <1>5
<1> DEFINE nuevos == Tramo(f.bloque + 1, T - 1)
<1>7. T = 1 => nuevos = {}
  BY <1>4 DEF Tramo
<1>8. bitmap \in [Bits -> BOOLEAN]
  BY DEF DInv, TypeOK
<1>9. /\ cantidad_bloques_libres < a /\ lista_fat' = l
      /\ UNCHANGED <<metadata, bitmap, bloques, op>>
      => DInv'
  <2> SUFFICES ASSUME lista_fat' = l, UNCHANGED <<metadata, bitmap, bloques, op>>
               PROVE  DInv'
    OBVIOUS
  <2>1. (lista_fat \in Seq(Fcb) /\ UnFcb(lista_fat))'
        /\ \A i \in DOMAIN l : l[i] = FcbLeido(l[i].nombre)'
    BY <1>1, <1>2, ListaDespues
  <2>2. FcbsFieles(lista_fat)'
    BY <2>1 DEF FcbsFieles
  <2> QED
    BY <2>1, <2>2, <1>1, SoloLista DEF DInv, TypeOK
<1>10. a = 0 /\ AlGuardar(l, n, nuevo) /\ UNCHANGED bitmap => DInv'
  <2> SUFFICES ASSUME a = 0, AlGuardar(l, n, nuevo), UNCHANGED bitmap PROVE DInv'
    OBVIOUS
  <2>1. nuevos = {}
    BY <1>5, <1>7
  <2>2. EnSuLugar(l, n, nuevo)
    BY <2>1, <1>1, <1>3, <1>5, <1>8 DEF EnSuLugar
  <2> QED  BY <2>2, <1>1, <1>2, PasoEnSuLugar
<1>11. a < 0 /\ Quitar(Anteriores(fin, -a)) /\ AlGuardar(l, n, nuevo) => DInv'
  <2> SUFFICES ASSUME a < 0, Quitar(Anteriores(fin, -a)), AlGuardar(l, n, nuevo) PROVE DInv'
    OBVIOUS
  <2>1. a = -1 /\ T = 1 /\ f.bloque + 1 \notin Bits \ BitsLibres
    BY <1>5
  <2>2. Anteriores(fin, -a) = {f.bloque + 1}
    BY <2>1, <1>4, <1>6 DEF Anteriores
  <2>3. /\ bitmap' \in [Bits -> BOOLEAN]
        /\ \A c \in Bits : bitmap'[c] <=> bitmap[c] /\ c # f.bloque + 1
    BY <2>2, <1>8 DEF Quitar
  <2>4. \A c \in Bits : bitmap'[c] <=> bitmap[c]
    BY <2>1, <2>3 DEF BitsLibres
  <2>5. EnSuLugar(l, n, nuevo)
    BY <2>1, <2>3, <2>4, <1>1, <1>3, <1>5, <1>7 DEF EnSuLugar
  <2> QED  BY <2>5, <1>1, <1>2, PasoEnSuLugar
<1>12. /\ a > 0 /\ HaySeguidos(fin, a) /\ Poner(BitsNuevos(fin, a) \intersect Bits)
       /\ AlGuardar(l, n, nuevo)
       => DInv'
  <2> SUFFICES ASSUME a > 0, HaySeguidos(fin, a), Poner(BitsNuevos(fin, a) \intersect Bits),
                      AlGuardar(l, n, nuevo)
               PROVE  DInv'
    OBVIOUS
  <2>1. a = T - 1
    BY <1>5
  <2>2. BitsNuevos(fin, a) = nuevos
    BY <2>1, <1>6 DEF BitsNuevos
  <2>3. nuevos \subseteq BitsLibres
    BY <2>1, <1>6 DEF HaySeguidos, Tramo
  <2> HIDE DEF nuevos
  <2>4. /\ bitmap' \in [Bits -> BOOLEAN]
        /\ \A c \in Bits : bitmap'[c] <=> bitmap[c] \/ c \in nuevos
    BY <2>2, <1>8 DEF Poner
  <2>5. EnSuLugar(l, n, nuevo)
    BY <2>3, <2>4, <1>1, <1>3, <1>5 DEF EnSuLugar, nuevos
  <2> QED  BY <2>5, <1>1, <1>2, PasoEnSuLugar
<1>13. /\ a \in 1..cantidad_bloques_libres /\ ~HaySeguidos(fin, a) /\ Compactar(l, n, nuevo)
       => DInv'
  <2> SUFFICES ASSUME a \in 1..cantidad_bloques_libres, Compactar(l, n, nuevo)
               PROVE  DInv'
    OBVIOUS
  <2>1. a = T - 1 /\ f.tamanio = 0
    BY <1>5
  <2>2. \A m \in Creados : Apariciones(l, m) # {}
    BY DEF Compactar, FaltaCargar, SoloDatos
  <2>3. AlCompactar(l, n, nuevo)
    BY <2>1, <2>2, <1>1, <1>2, <1>3 DEF AlCompactar, DInv, DiscoBien
  <2> QED  BY <2>3, <1>1, PasoCompactar
<1> QED
  BY <1>9, <1>10, <1>11, <1>12, <1>13 DEF Truncar, a

LEMMA DInvInicial ==
  ASSUME Init
  PROVE  DInv
<1>1. Creados = {} /\ \A n \in Nombres : ~Esta(n)
  BY DEF Init, Creados, Esta
<1>2. lista_fat \in Seq(Fcb) /\ DOMAIN lista_fat = {}
  <2>1. DOMAIN <<>> = {} /\ <<>> \in Seq(Fcb)
    BY EmptySeq
  <2> QED  BY <2>1 DEF Init
<1>3. TypeOK
  BY <1>2 DEF Init, TypeOK, SinArchivo
<1> QED
  BY <1>1, <1>2, <1>3 DEF Init, DInv, DiscoBien, UnFcb, FcbsFieles, MetadataBien,
     Separados, BitmapAlDia, Pendiente

LEMMA DInvPaso ==
  ASSUME SinBitsDeMas, SoloDatos, DInv, [Next]_dvars
  PROVE  DInv'
<1>1. ASSUME NEW n \in Nombres, Pedido(n)
      PROVE  DInv'
  <2>1. \A nuevo \in 0..MaxTamanio : nuevo \in Nat
    BY Constantes
  <2>2. CASE CrearSinLugar(n)
    BY <2>2, PasoCrearSinLugar
  <2>3. CASE Crear(n)
    BY <2>3, PasoCrear
  <2>4. CASE PedirInexistente(n)
    BY <2>4, PasoPedirInexistente
  <2>5. CASE Borrar(n)
    BY <2>5, PasoBorrar
  <2>6. CASE \E nuevo \in 0..MaxTamanio : Truncar(n, nuevo)
    BY <2>1, <2>6, PasoTruncar
  <2>7. CASE \E puntero \in 0..(MaxTamanio - 1), tamanio \in Largos :
               Escribir(n, puntero, tamanio)
    BY <2>7, PasoEscribir
  <2>8. CASE Leer(n)
    BY <2>8, PasoLeer
  <2> QED
    BY <1>1, <2>2, <2>3, <2>4, <2>5, <2>6, <2>7, <2>8 DEF Pedido
<1>2. ASSUME Continua
      PROVE  DInv'
  BY <1>2, PasoAsignarBloque, PasoMarcarBloque, PasoQuitarFcb, PasoGuardarTruncado
     DEF Continua
<1>3. CASE Reiniciar
  BY <1>3, PasoReiniciar
<1>4. CASE UNCHANGED dvars
  <2>1. /\ UNCHANGED <<lista_fat, metadata, bitmap, bloques, op, caido>>
        /\ \A pcs, m : EnCurso(pcs, m)' <=> EnCurso(pcs, m)
    BY <1>4 DEF dvars, EnCurso
  <2>2. TypeOK'
    BY <2>1 DEF DInv, TypeOK
  <2>3. /\ Creados' = Creados
        /\ \A m : Donde(m)' = Donde(m)
        /\ \A m : Cuantos(m)' = Cuantos(m)
        /\ \A m : FcbLeido(m)' = FcbLeido(m)
        /\ \A m : Esta(m)' <=> Esta(m)
    BY <2>1 DEF Creados, Esta, Donde, Cuantos, FcbLeido
  <2>4. \A m : Reservados(m)' = Reservados(m)
    BY <2>3 DEF Reservados
  <2>5. UnFcb(lista_fat)' /\ FcbsFieles(lista_fat)'
    BY <2>1, <2>3 DEF DInv, DiscoBien, UnFcb, FcbsFieles
  <2>6. MetadataBien'
    BY <2>1, <2>3 DEF DInv, DiscoBien, MetadataBien
  <2>7. Separados'
    BY <2>3, <2>4 DEF DInv, DiscoBien, Separados
  <2>8. BitmapAlDia'
    BY <2>1, <2>3, <2>4 DEF DInv, DiscoBien, BitmapAlDia
  <2>9. Pendiente'
    BY <2>1, <2>3 DEF DInv, DiscoBien, Pendiente
  <2> QED
    BY <2>2, <2>5, <2>6, <2>7, <2>8, <2>9 DEF DInv, DiscoBien
<1> QED
  BY <1>1, <1>2, <1>3, <1>4 DEF Next

LEMMA DInvSiempre ==
  ASSUME SinBitsDeMas, SoloDatos
  PROVE  Spec => []DInv
<1>1. Init => DInv
  BY DInvInicial
<1>2. DInv /\ [Next]_dvars => DInv'
  BY DInvPaso
<1> QED  BY <1>1, <1>2, PTL DEF Spec

-----------------------------------------------------------------------------
(* What the programs see *)

TamanioVisto(n) ==
  IF EnCurso({"guardar_mudado"}, n) THEN op.nuevo ELSE metadata[n].tamanio

\* Where byte k of n is in the block file
Lugar(n, k) == Donde(n) * BLOCK_SIZE + k

Escritos(n) ==
  {k \in 0..(TamanioVisto(n) - 1) :
     Lugar(n, k) \in Bytes /\ bloques[Lugar(n, k)] = Dato(n, k)}

\* The refinement mapping, from the metadata files alone
Visto ==
  /\ tamanioDe = [n \in Nombres |-> IF n \in Creados THEN TamanioVisto(n) ELSE Ausente]
  /\ guardadoDe = [n \in Nombres |-> IF n \in Creados THEN Escritos(n) ELSE {}]
  /\ \A n \in Creados : n \in Nombres /\ TamanioVisto(n) \in Nat

LEMMA SeVe == DInv => Visto
<1> SUFFICES ASSUME DInv PROVE Visto
  OBVIOUS
<1>1. ASSUME NEW n \in Creados
      PROVE  /\ n \in Nombres /\ TamanioVisto(n) \in Nat
             /\ FcbDe(n).tamanio = TamanioVisto(n)
             /\ FcbDe(n).bloque = Donde(n)
  <2>1. /\ metadata[n].tamanio \in Nat /\ FcbDe(n).bloque = Donde(n)
        /\ FcbDe(n).tamanio = TamanioVisto(n)
    BY FcbDeArchivo DEF DInv, TamanioVisto
  <2>2. EnCurso({"guardar_mudado"}, n) => op.nuevo \in Nat
    BY OpTipo DEF DInv, EnCurso
  <2> QED  BY <2>1, <2>2 DEF Creados, TamanioVisto
<1>2. \A n \in Nombres : Guardado(n) = IF n \in Creados THEN Escritos(n) ELSE {}
  BY <1>1 DEF Guardado, Escritos, Lugar
<1>3. tamanioDe = [n \in Nombres |-> IF n \in Creados THEN TamanioVisto(n) ELSE Ausente]
  BY <1>1 DEF tamanioDe
<1> QED  BY <1>1, <1>2, <1>3 DEF Visto, guardadoDe

\* A step that the programs do not see in file m
SeVeIgual(m) ==
  /\ (m \in Creados)' <=> m \in Creados
  /\ m \in Creados =>
       /\ TamanioVisto(m)' = TamanioVisto(m)
       /\ TamanioVisto(m) # 0 => Donde(m)' = Donde(m)
       /\ \A k \in 0..(TamanioVisto(m) - 1) :
            Lugar(m, k) \in Bytes => bloques'[Lugar(m, k)] = bloques[Lugar(m, k)]

LEMMA Igual ==
  ASSUME Visto, Visto', NEW m \in Nombres, SeVeIgual(m)
  PROVE  tamanioDe'[m] = tamanioDe[m] /\ guardadoDe'[m] = guardadoDe[m]
<1>1. /\ tamanioDe[m] = IF m \in Creados THEN TamanioVisto(m) ELSE Ausente
      /\ guardadoDe[m] = IF m \in Creados THEN Escritos(m) ELSE {}
      /\ tamanioDe'[m] = IF m \in Creados' THEN TamanioVisto(m)' ELSE Ausente
      /\ guardadoDe'[m] = IF m \in Creados' THEN Escritos(m)' ELSE {}
  BY DEF Visto
<1>2. CASE m \notin Creados
  BY <1>1, <1>2 DEF SeVeIgual
<1>3. CASE m \in Creados
  <2>1. m \in Creados' /\ TamanioVisto(m)' = TamanioVisto(m)
    BY <1>3 DEF SeVeIgual
  <2>2. CASE TamanioVisto(m) = 0
    <3>1. Escritos(m) = {} /\ Escritos(m)' = {}
      BY <2>1, <2>2 DEF Escritos
    <3> QED  BY <1>1, <1>3, <2>1, <3>1
  <2>3. CASE TamanioVisto(m) # 0
    <3>1. Donde(m)' = Donde(m)
      BY <1>3, <2>3 DEF SeVeIgual
    <3>2. \A k : Lugar(m, k)' = Lugar(m, k)
      BY <3>1 DEF Lugar
    <3>3. \A k \in 0..(TamanioVisto(m) - 1) :
            Lugar(m, k) \in Bytes => bloques'[Lugar(m, k)] = bloques[Lugar(m, k)]
      BY <1>3 DEF SeVeIgual
    <3>4. Escritos(m)' = Escritos(m)
      BY <2>1, <3>2, <3>3 DEF Escritos
    <3> QED  BY <1>1, <1>3, <2>1, <3>4
  <2> QED  BY <2>2, <2>3
<1> QED  BY <1>2, <1>3

LEMMA TodosIgual ==
  ASSUME DInv, DInv', \A m \in Nombres : SeVeIgual(m)
  PROVE  UNCHANGED <<tamanioDe, guardadoDe>>
<1>1. Visto /\ Visto'
  BY SeVe, PTL
<1>2. \A m \in Nombres : tamanioDe'[m] = tamanioDe[m] /\ guardadoDe'[m] = guardadoDe[m]
  BY <1>1, Igual
<1>3. /\ tamanioDe = [m \in Nombres |-> tamanioDe[m]]
      /\ tamanioDe' = [m \in Nombres |-> tamanioDe'[m]]
      /\ guardadoDe = [m \in Nombres |-> guardadoDe[m]]
      /\ guardadoDe' = [m \in Nombres |-> guardadoDe'[m]]
  BY <1>1 DEF Visto
<1> QED  BY <1>2, <1>3

LEMMA LosOtrosIgual ==
  ASSUME DInv, DInv', NEW n \in Nombres, \A m \in Nombres \ {n} : SeVeIgual(m)
  PROVE  /\ tamanioDe' = [tamanioDe EXCEPT ![n] = tamanioDe'[n]]
         /\ guardadoDe' = [guardadoDe EXCEPT ![n] = guardadoDe'[n]]
<1>1. Visto /\ Visto'
  BY SeVe, PTL
<1>2. \A m \in Nombres \ {n} : tamanioDe'[m] = tamanioDe[m] /\ guardadoDe'[m] = guardadoDe[m]
  BY <1>1, Igual
<1>3. /\ tamanioDe = [m \in Nombres |-> tamanioDe[m]]
      /\ tamanioDe' = [m \in Nombres |-> tamanioDe'[m]]
      /\ guardadoDe = [m \in Nombres |-> guardadoDe[m]]
      /\ guardadoDe' = [m \in Nombres |-> guardadoDe'[m]]
  BY <1>1 DEF Visto
<1> QED  BY <1>2, <1>3

\* A file whose metadata stays, with no compaction of its own under way.
LEMMA MismoArchivo ==
  ASSUME NEW m, metadata'[m] = metadata[m],
         ~EnCurso({"guardar_mudado"}, m), ~EnCurso({"guardar_mudado"}, m)'
  PROVE  /\ (m \in Creados)' <=> m \in Creados
         /\ TamanioVisto(m)' = TamanioVisto(m)
         /\ Donde(m)' = Donde(m)
<1>1. TamanioVisto(m)' = TamanioVisto(m) /\ Donde(m)' = Donde(m)
  BY DEF TamanioVisto, Donde
<1>2. (m \in Creados)' <=> m \in Creados
  BY DEF Creados, Esta
<1> QED  BY <1>1, <1>2

LEMMA MismosDatos ==
  ASSUME NEW m, metadata'[m] = metadata[m], UNCHANGED bloques,
         ~EnCurso({"guardar_mudado"}, m), ~EnCurso({"guardar_mudado"}, m)'
  PROVE  SeVeIgual(m)
BY MismoArchivo DEF SeVeIgual

LEMMA CrearNoSeVe ==
  ASSUME DInv, DInv', SoloDatos, NEW n \in Nombres, Crear(n)
  PROVE  UNCHANGED <<tamanioDe, guardadoDe>>
<1>1. /\ op = Reposo /\ ~Esta(n) /\ UNCHANGED bloques /\ op'.pc = "asignar"
      /\ metadata' = [metadata EXCEPT ![n] = [bloque |-> SinBloque, tamanio |-> 0]]
  BY DEF Crear, Libre, SoloDatos
<1>2. metadata'[n].bloque = SinBloque /\ \A m \in Nombres \ {n} : metadata'[m] = metadata[m]
  BY <1>1 DEF DInv, TypeOK
<1>3. \A m : ~EnCurso({"guardar_mudado"}, m) /\ ~EnCurso({"guardar_mudado"}, m)'
  BY <1>1 DEF EnCurso, Reposo
<1>4. SeVeIgual(n)
  BY <1>1, <1>2 DEF SeVeIgual, Creados
<1>5. \A m \in Nombres \ {n} : SeVeIgual(m)
  BY <1>1, <1>2, <1>3, MismosDatos
<1> QED  BY <1>4, <1>5, TodosIgual

\* The file exists once its first block is in its metadata file.
LEMMA AsignarEsCrear ==
  ASSUME DInv, DInv', AsignarBloque
  PROVE  Promesa!Next
<1> PICK n, i, b : n = op.nombre /\ i = Posicion(lista_fat, op.nombre) /\ b = op.indice
  OBVIOUS
<1>1. /\ op.pc = "asignar" /\ UNCHANGED bloques
      /\ metadata' = [metadata EXCEPT ![n] = [bloque |-> b, tamanio |-> lista_fat[i].tamanio]]
      /\ op' = [op EXCEPT !.pc = "marcar"]
  BY DEF AsignarBloque
<1>2. op # Reposo /\ b \in Bits /\ op = [pc |-> "asignar", nombre |-> n, indice |-> b]
  BY <1>1, OpTipo DEF DInv, Reposo
<1>3. n \in Nombres /\ op'.pc = "marcar" /\ b \in Nat
  BY <1>1, <1>2, EnCursoBien, CeroEsBit
<1>4. /\ metadata[n] = [bloque |-> SinBloque, tamanio |-> 0]
      /\ lista_fat[i].tamanio = 0
  BY <1>1, <1>2 DEF DInv, DiscoBien, Pendiente
<1>5. /\ metadata'[n] = [bloque |-> b, tamanio |-> 0]
      /\ \A m \in Nombres \ {n} : metadata'[m] = metadata[m]
  BY <1>1, <1>3, <1>4 DEF DInv, TypeOK
<1>6. \A m : ~EnCurso({"guardar_mudado"}, m) /\ ~EnCurso({"guardar_mudado"}, m)'
  BY <1>1, <1>3 DEF EnCurso
<1>7. n \notin Creados /\ n \in Creados' /\ TamanioVisto(n)' = 0
  BY <1>3, <1>4, <1>5, <1>6 DEF Creados, Esta, SinBloque, SinArchivo, Ausente, TamanioVisto
<1>8. Escritos(n)' = {}
  BY <1>7 DEF Escritos
<1>9. /\ tamanioDe' = [tamanioDe EXCEPT ![n] = tamanioDe'[n]]
      /\ guardadoDe' = [guardadoDe EXCEPT ![n] = guardadoDe'[n]]
  BY <1>1, <1>3, <1>5, <1>6, MismosDatos, LosOtrosIgual
<1>10. Visto /\ Visto'
  BY SeVe, PTL
<1>11. /\ tamanioDe[n] = Ausente /\ guardadoDe[n] = {}
       /\ tamanioDe'[n] = 0 /\ guardadoDe'[n] = {}
  BY <1>3, <1>7, <1>8, <1>10 DEF Visto
<1>12. UNCHANGED guardadoDe
  <2>1. guardadoDe = [m \in Nombres |-> guardadoDe[m]]
    BY DEF guardadoDe
  <2> QED  BY <2>1, <1>9, <1>11
<1>13. Promesa!Crear(n)
  BY <1>9, <1>11, <1>12 DEF Promesa!Crear, Promesa!Existe
<1> QED  BY <1>3, <1>13 DEF Promesa!Next

LEMMA QuitarEsBorrar ==
  ASSUME DInv, DInv', QuitarFcb
  PROVE  Promesa!Next
<1> PICK n : n = op.nombre
  OBVIOUS
<1>1. /\ op.pc = "quitar" /\ UNCHANGED bloques /\ op' = Reposo
      /\ metadata' = [metadata EXCEPT ![n] = SinArchivo]
  BY DEF QuitarFcb, BorrarMetadata
<1>2. op # Reposo
  BY <1>1 DEF Reposo
<1>3. n \in Nombres /\ Esta(n)
  BY <1>2, EnCursoBien
<1>4. /\ metadata'[n] = SinArchivo
      /\ \A m \in Nombres \ {n} : metadata'[m] = metadata[m]
  BY <1>1, <1>3 DEF DInv, TypeOK
<1>5. \A m : ~EnCurso({"guardar_mudado"}, m) /\ ~EnCurso({"guardar_mudado"}, m)'
             /\ ~EnCurso({"asignar"}, m)
  BY <1>1 DEF EnCurso, Reposo
<1>6. n \in Creados /\ n \notin Creados'
  BY <1>3, <1>4, <1>5 DEF Creados, Esta, DInv, DiscoBien, MetadataBien
<1>7. /\ tamanioDe' = [tamanioDe EXCEPT ![n] = tamanioDe'[n]]
      /\ guardadoDe' = [guardadoDe EXCEPT ![n] = guardadoDe'[n]]
  BY <1>1, <1>3, <1>4, <1>5, MismosDatos, LosOtrosIgual
<1>8. Visto /\ Visto'
  BY SeVe, PTL
<1>9. /\ tamanioDe[n] \in Nat
      /\ tamanioDe'[n] = Ausente /\ guardadoDe'[n] = {}
  BY <1>3, <1>6, <1>8 DEF Visto
<1>10. Promesa!Borrar(n)
  BY <1>7, <1>9 DEF Promesa!Borrar, Promesa!Existe, Ausente
<1> QED  BY <1>3, <1>10 DEF Promesa!Next

\* In place, the size changes when it is saved; after a compaction, before.
LEMMA GuardarEsTruncar ==
  ASSUME DInv, DInv', GuardarTruncado
  PROVE  Promesa!Next \/ UNCHANGED <<tamanioDe, guardadoDe>>
<1> PICK n, i, nuevo :
      n = op.nombre /\ i = Posicion(lista_fat, op.nombre) /\ nuevo = op.nuevo
  OBVIOUS
<1> DEFINE B == IF op.pc = "guardar_mudado" THEN lista_fat[i].bloque ELSE metadata[n].bloque
<1>1. /\ op.pc \in {"guardar", "guardar_mudado"} /\ op' = Reposo
      /\ UNCHANGED bloques
      /\ metadata' = [metadata EXCEPT ![n] = MetadataGuardada(@, i)]
  BY DEF GuardarTruncado
<1>2. op # Reposo /\ nuevo \in Nat
  BY <1>1, OpTipo DEF DInv, Reposo
<1>3. n \in Nombres /\ Esta(n)
  BY <1>2, EnCursoBien
<1>4. metadata \in [Nombres -> [bloque: Bits \union {SinBloque}, tamanio: Nat \union {Ausente}]]
  BY DEF DInv, TypeOK
<1>5. /\ metadata'[n].tamanio = nuevo /\ metadata'[n].bloque = B
      /\ \A m \in Nombres \ {n} : metadata'[m] = metadata[m]
  <2>1. metadata'[n] = MetadataGuardada(metadata[n], i)
        /\ \A m \in Nombres \ {n} : metadata'[m] = metadata[m]
    BY <1>1, <1>3, <1>4
  <2>2. metadata[n] \in [bloque: Bits \union {SinBloque}, tamanio: Nat \union {Ausente}]
    BY <1>3, <1>4
  <2> QED  BY <2>1, <2>2 DEF MetadataGuardada
<1>6. /\ \A m, pcs : EnCurso(pcs, m) <=> op.pc \in pcs /\ m = n
      /\ \A m, pcs : "reposo" \notin pcs => ~EnCurso(pcs, m)'
  BY <1>1 DEF EnCurso, Reposo
<1>7. /\ metadata[n].tamanio \in Nat /\ metadata[n].bloque # SinBloque
      /\ op.pc = "guardar_mudado" => lista_fat[i].bloque \in Bits
  BY <1>1, <1>2, <1>3, <1>6 DEF DInv, DiscoBien, MetadataBien, Pendiente
<1>8. n \in Creados /\ n \in Creados'
  <2>1. B # SinBloque
    BY <1>7, CeroEsBit DEF SinBloque
  <2>2. metadata'[n] # SinArchivo
    BY <1>2, <1>5 DEF SinArchivo, Ausente
  <2> QED  BY <1>3, <1>5, <1>7, <2>1, <2>2 DEF Creados, Esta
<1>9. TamanioVisto(n)' = nuevo /\ Donde(n)' = B
  BY <1>5, <1>6 DEF TamanioVisto, Donde
<1>10. Donde(n) = B
  BY <1>6 DEF Donde
<1>11. \A m \in Nombres \ {n} : SeVeIgual(m)
  BY <1>1, <1>5, <1>6, MismosDatos
<1>12. CASE op.pc = "guardar_mudado"
  <2>1. TamanioVisto(n) = nuevo
    BY <1>6, <1>12 DEF TamanioVisto
  <2>2. SeVeIgual(n)
    BY <2>1, <1>1, <1>8, <1>9, <1>10 DEF SeVeIgual
  <2> QED  BY <2>2, <1>11, TodosIgual
<1>13. CASE op.pc = "guardar"
  <2>1. /\ tamanioDe' = [tamanioDe EXCEPT ![n] = tamanioDe'[n]]
        /\ guardadoDe' = [guardadoDe EXCEPT ![n] = guardadoDe'[n]]
    BY <1>3, <1>11, LosOtrosIgual
  <2>2. Visto /\ Visto'
    BY SeVe, PTL
  <2>3. /\ tamanioDe[n] \in Nat /\ guardadoDe[n] = Escritos(n)
        /\ tamanioDe'[n] = nuevo /\ guardadoDe'[n] = Escritos(n)'
    BY <2>2, <1>3, <1>8, <1>9 DEF Visto
  <2>4. Escritos(n) \intersect 0..(nuevo - 1) \subseteq Escritos(n)'
    BY <1>1, <1>9, <1>10 DEF Escritos, Lugar
  <2>5. Escritos(n)' \subseteq 0..(nuevo - 1)
    BY <1>9 DEF Escritos
  <2>6. Promesa!Truncar(n)
    BY <1>2, <2>1, <2>3, <2>4, <2>5
       DEF Promesa!Truncar, Promesa!Existe, Promesa!SoloCambia, Ausente
  <2> QED  BY <1>3, <2>6 DEF Promesa!Next
<1> QED  BY <1>1, <1>12, <1>13

LEMMA UnosTrasOtros ==
  ASSUME NEW x \in Nat, NEW y \in Nat, NEW z \in Nat, x + y <= z
  PROVE  BLOCK_SIZE * x + BLOCK_SIZE * y <= BLOCK_SIZE * z
<1>1. BLOCK_SIZE \in Nat
  BY DialFsAssumption
<1> PICK r \in Nat : z = x + y + r
  BY z - x - y \in Nat
<1>2. BLOCK_SIZE * z = BLOCK_SIZE * x + BLOCK_SIZE * y + BLOCK_SIZE * r
  BY <1>1
<1>3. BLOCK_SIZE * r \in Nat /\ BLOCK_SIZE * x \in Nat /\ BLOCK_SIZE * y \in Nat
  BY <1>1
<1> QED  BY <1>2, <1>3

\* Bytes of two runs of blocks that have no block in common.
LEMMA BytesAparte ==
  ASSUME NEW d \in Nat, NEW c \in Nat \ {0}, NEW e \in Nat, NEW f \in Nat \ {0},
         Tramo(d, c) \intersect Tramo(e, f) = {},
         NEW j \in Nat, j < BLOCK_SIZE * c, NEW k \in Nat, k < BLOCK_SIZE * f
  PROVE  d * BLOCK_SIZE + j # e * BLOCK_SIZE + k
<1>1. BLOCK_SIZE \in Nat
  BY DialFsAssumption
<1>2. d + c <= e \/ e + f <= d
  <2>1. d \notin Tramo(e, f) /\ e \notin Tramo(d, c)
    BY DEF Tramo
  <2> QED  BY <2>1 DEF Tramo
<1>3. \A x, y, z \in Nat : x + y <= z => BLOCK_SIZE * x + BLOCK_SIZE * y <= BLOCK_SIZE * z
  BY UnosTrasOtros
<1>4. /\ d * BLOCK_SIZE = BLOCK_SIZE * d /\ e * BLOCK_SIZE = BLOCK_SIZE * e
      /\ BLOCK_SIZE * d \in Nat /\ BLOCK_SIZE * e \in Nat
      /\ BLOCK_SIZE * c \in Nat /\ BLOCK_SIZE * f \in Nat
  BY <1>1
<1>5. CASE d + c <= e
  <2>1. BLOCK_SIZE * d + BLOCK_SIZE * c <= BLOCK_SIZE * e
    BY <1>3, <1>5
  <2> QED  BY <2>1, <1>4
<1>6. CASE e + f <= d
  <2>1. BLOCK_SIZE * e + BLOCK_SIZE * f <= BLOCK_SIZE * d
    BY <1>3, <1>6
  <2> QED  BY <2>1, <1>4
<1> QED  BY <1>2, <1>5, <1>6

\* Between requests, the bytes of a file are inside its blocks.
LEMMA BytesEnBloques ==
  ASSUME DInv, op = Reposo, NEW m \in Creados
  PROVE  /\ m \in Nombres
         /\ TamanioVisto(m) = metadata[m].tamanio /\ TamanioVisto(m) \in Nat
         /\ Donde(m) = metadata[m].bloque /\ Donde(m) \in Nat
         /\ Cuantos(m) \in Nat \ {0}
         /\ TamanioVisto(m) > 0 => TamanioVisto(m) <= BLOCK_SIZE * Cuantos(m)
<1>1. /\ ~EnCurso({"guardar_mudado"}, m)
      /\ ~EnCurso({"guardar", "guardar_mudado"}, m)
  BY DEF EnCurso, Reposo
<1>2. /\ TamanioVisto(m) = metadata[m].tamanio /\ Donde(m) = metadata[m].bloque
      /\ Cuantos(m) = tamanio_en_bloques(metadata[m].tamanio)
  BY <1>1 DEF TamanioVisto, Donde, Cuantos
<1>3. metadata[m].tamanio \in Nat /\ Donde(m) \in Bits /\ Cuantos(m) \in Nat \ {0}
  BY FcbDeArchivo DEF DInv
<1>4. Donde(m) \in Nat
  BY <1>3, CeroEsBit
<1>5. TamanioVisto(m) > 0 => TamanioVisto(m) <= BLOCK_SIZE * Cuantos(m)
  BY <1>2, <1>3, Techo
<1> QED  BY <1>2, <1>3, <1>4, <1>5 DEF Creados

\* An aligned WRITE within the file puts byte k of it where byte k goes.
LEMMA EscribirEsEscribir ==
  ASSUME DInv, DInv', NEW n \in Nombres, NEW puntero \in 0..(MaxTamanio - 1),
         NEW tamanio \in Largos, Escribir(n, puntero, tamanio), ~EscrituraDesviada(n)
  PROVE  Promesa!Next
<1> PICK f, b0 : /\ f = ConFcb(n)[Posicion(ConFcb(n), n)]
                 /\ b0 = DondeEscribe(f, puntero)
  OBVIOUS
<1>1. /\ op = Reposo /\ op' = Reposo /\ Pedible(n) /\ AccesoCubierto(f, puntero, tamanio)
      /\ UNCHANGED <<metadata, op>>
      /\ bloques' = [b \in Bytes |->
                       IF b \in Tramo(b0, tamanio) THEN Dato(n, puntero + (b - b0))
                       ELSE bloques[b]]
  BY DEF Escribir, Pedible, Libre
<1>2. n \in Creados /\ f = FcbLeido(n) /\ Esta(n)
  BY <1>1, ConFcbBien DEF DInv, PedidoBien
<1>3. f.bloque = Donde(n) /\ f.tamanio = TamanioVisto(n)
      /\ Donde(n) \in Nat /\ TamanioVisto(n) \in Nat
  BY <1>1, <1>2, EnReposo, BytesEnBloques DEF DInv
<1>4. /\ BLOCK_SIZE \in Nat \ {0} /\ puntero \in Nat /\ tamanio \in Nat
      /\ puntero % BLOCK_SIZE = 0 /\ puntero + tamanio <= TamanioVisto(n)
  <2>1. BLOCK_SIZE \in Nat \ {0} /\ puntero \in Nat /\ tamanio \in Nat
    BY Constantes
  <2>2. puntero % BLOCK_SIZE = 0 /\ ~(puntero + tamanio > TamanioVisto(n))
    BY <1>3 DEF EscrituraDesviada
  <2> QED  BY <1>3, <2>1, <2>2
<1>5. b0 = Donde(n) * BLOCK_SIZE + puntero
  <2> PICK q : q = puntero \div BLOCK_SIZE
    OBVIOUS
  <2>1. q \in Int /\ puntero = BLOCK_SIZE * q
    BY <1>4
  <2>2. b0 = BLOCK_SIZE * (Donde(n) + q)
    BY <1>3 DEF DondeEscribe, Base
  <2> QED  BY <1>3, <1>4, <2>1, <2>2
<1>6. \A b \in Tramo(b0, tamanio) :
        /\ puntero + (b - b0) \in 0..(TamanioVisto(n) - 1)
        /\ b = Lugar(n, puntero + (b - b0))
  <2> PICK e, t : e = Donde(n) * BLOCK_SIZE /\ t = TamanioVisto(n)
    OBVIOUS
  <2>1. e \in Nat /\ b0 = e + puntero /\ b0 \in Nat /\ t \in Nat /\ puntero + tamanio <= t
    BY <1>3, <1>4, <1>5
  <2>2. \A b \in Tramo(b0, tamanio) :
          puntero + (b - b0) \in 0..(t - 1) /\ b = e + (puntero + (b - b0))
    BY <1>4, <2>1 DEF Tramo
  <2> QED  BY <2>2 DEF Lugar
<1>7. \A m : ~EnCurso({"guardar_mudado"}, m) /\ ~EnCurso({"guardar_mudado"}, m)'
  BY <1>1 DEF EnCurso, Reposo
<1>8. \A m : /\ (m \in Creados)' <=> m \in Creados
             /\ TamanioVisto(m)' = TamanioVisto(m)
             /\ Donde(m)' = Donde(m)
  BY <1>1, <1>7, MismoArchivo
<1>9. ASSUME NEW m \in Nombres \ {n}
      PROVE  SeVeIgual(m)
  <2>1. SUFFICES ASSUME m \in Creados, NEW k \in 0..(TamanioVisto(m) - 1), Lugar(m, k) \in Bytes
                 PROVE  Lugar(m, k) \notin Tramo(b0, tamanio)
    BY <1>1, <1>8 DEF SeVeIgual
  <2>2. SUFFICES ASSUME NEW b \in Tramo(b0, tamanio), b = Lugar(m, k)
                 PROVE  FALSE
    OBVIOUS
  <2> PICK j : j = puntero + (b - b0)
    OBVIOUS
  <2>3. j \in 0..(TamanioVisto(n) - 1) /\ b = Lugar(n, j)
    BY <1>6
  <2>4. Tramo(Donde(m), Cuantos(m)) \intersect Tramo(Donde(n), Cuantos(n)) = {}
    BY <1>2, <2>1 DEF DInv, DiscoBien, Separados, Reservados
  <2> PICK tm, cm, dm, tn, cn, dn :
         /\ tm = TamanioVisto(m) /\ cm = Cuantos(m) /\ dm = Donde(m)
         /\ tn = TamanioVisto(n) /\ cn = Cuantos(n) /\ dn = Donde(n)
    OBVIOUS
  <2>5. /\ tm \in Nat /\ dm \in Nat /\ cm \in Nat \ {0}
        /\ tm > 0 => tm <= BLOCK_SIZE * cm
    BY <1>1, <2>1, BytesEnBloques
  <2>6. /\ tn \in Nat /\ dn \in Nat /\ cn \in Nat \ {0}
        /\ tn > 0 => tn <= BLOCK_SIZE * cn
    BY <1>1, <1>2, BytesEnBloques
  <2>7. /\ BLOCK_SIZE * cm \in Nat /\ BLOCK_SIZE * cn \in Nat
    BY <1>4, <2>5, <2>6
  <2>8. k \in Nat /\ k < BLOCK_SIZE * cm /\ j \in Nat /\ j < BLOCK_SIZE * cn
    BY <2>1, <2>3, <2>5, <2>6, <2>7
  <2>9. dm * BLOCK_SIZE + k # dn * BLOCK_SIZE + j
    <3>1. Tramo(dm, cm) \intersect Tramo(dn, cn) = {}
      BY <2>4
    <3>2. /\ dm \in Nat /\ cm \in Nat \ {0} /\ dn \in Nat /\ cn \in Nat \ {0}
          /\ k \in Nat /\ k < BLOCK_SIZE * cm /\ j \in Nat /\ j < BLOCK_SIZE * cn
      BY <2>5, <2>6, <2>8
    <3> QED  BY ONLY <3>1, <3>2, BytesAparte
  <2> QED  BY <2>2, <2>3, <2>9 DEF Lugar
<1>10. /\ tamanioDe' = [tamanioDe EXCEPT ![n] = tamanioDe'[n]]
       /\ guardadoDe' = [guardadoDe EXCEPT ![n] = guardadoDe'[n]]
  BY <1>9, LosOtrosIgual
<1>11. Visto /\ Visto'
  BY SeVe, PTL
<1>12. /\ tamanioDe[n] = TamanioVisto(n) /\ guardadoDe[n] = Escritos(n)
       /\ tamanioDe'[n] = TamanioVisto(n) /\ guardadoDe'[n] = Escritos(n)'
  BY <1>2, <1>8, <1>11 DEF Visto
<1>13. UNCHANGED tamanioDe
  <2>1. tamanioDe = [m \in Nombres |-> tamanioDe[m]]
    BY DEF tamanioDe
  <2> QED  BY <2>1, <1>10, <1>12
<1>14. Escritos(n) \subseteq Escritos(n)'
  <2> SUFFICES ASSUME NEW k \in Escritos(n)
               PROVE  k \in Escritos(n)'
    OBVIOUS
  <2>1. /\ k \in 0..(TamanioVisto(n) - 1) /\ Lugar(n, k) \in Bytes
        /\ bloques[Lugar(n, k)] = Dato(n, k)
    BY DEF Escritos
  <2>2. Lugar(n, k)' = Lugar(n, k)
    BY <1>8 DEF Lugar
  <2>3. puntero + (Lugar(n, k) - b0) = k
    <3>1. Donde(n) * BLOCK_SIZE \in Nat
      BY <1>3, <1>4
    <3> QED  BY <2>1, <3>1, <1>3, <1>4, <1>5 DEF Lugar
  <2>4. bloques'[Lugar(n, k)] = Dato(n, k)
    BY <1>1, <2>1, <2>3
  <2> QED  BY <2>1, <2>2, <2>4, <1>8 DEF Escritos
<1>15. Escritos(n)' \subseteq 0..(TamanioVisto(n) - 1)
  BY <1>8 DEF Escritos
<1>16. Promesa!Escribir(n)
  BY <1>3, <1>10, <1>12, <1>13, <1>14, <1>15
     DEF Promesa!Escribir, Promesa!Existe, Promesa!SoloCambia, Ausente
<1> QED  BY <1>16 DEF Promesa!Next

\* A compaction that leaves the files with data where they are only changes,
\* for the programs, the size of the truncated file, which was empty.
LEMMA CompactarEsTruncar ==
  ASSUME DInv, DInv', NEW n \in Nombres, NEW nuevo \in Nat, NEW l,
         AlCompactar(l, n, nuevo), Compactar(l, n, nuevo), ~MudaDatos(l, n)
  PROVE  Promesa!Next
<1> PICK D : D = BloquesDeOtros(l, n)
  OBVIOUS
<1>1. /\ l \in Seq(Fcb) /\ UnFcb(l) /\ FcbsFieles(l) /\ op = Reposo
      /\ Esta(n) /\ n \in Creados /\ metadata[n].tamanio = 0
      /\ DOMAIN l = 1..Len(l) /\ Len(l) \in Nat
  BY DEF AlCompactar, PedidoBien, FcbLeido
<1>2. /\ ~MudaDatos(l, n)
      /\ metadata' = [m \in Nombres |->
           IF m # n /\ Apariciones(l, m) # {}
           THEN [metadata[m] EXCEPT !.bloque = BloquesAntes(l, n, Max(Apariciones(l, m)))]
           ELSE metadata[m]]
      /\ bloques' = BloquesCompactados(l, n, l[Posicion(l, n)])
      /\ op' = [pc |-> "guardar_mudado", nombre |-> n, nuevo |-> nuevo]
  BY DEF Compactar
<1>3. /\ \A m, pcs : "reposo" \notin pcs => ~EnCurso(pcs, m)
      /\ \A m, pcs : EnCurso(pcs, m)' <=> "guardar_mudado" \in pcs /\ m = n
  BY <1>1, <1>2 DEF EnCurso, Reposo
<1>4. metadata \in [Nombres -> [bloque: Bits \union {SinBloque}, tamanio: Nat \union {Ausente}]]
  BY DEF DInv, TypeOK
<1>5. ASSUME NEW m \in Nombres \ {n}, m \notin Creados
      PROVE  SeVeIgual(m)
  <2>1. Apariciones(l, m) = {}
    <3> SUFFICES ASSUME NEW i \in DOMAIN l, l[i].nombre = m PROVE FALSE
      BY DEF Apariciones
    <3>1. Esta(m)
      BY <1>1 DEF UnFcb
    <3> QED  BY <3>1, <1>1, <1>5, EnReposo DEF DInv
  <2>2. metadata'[m] = metadata[m]
    BY <1>2, <2>1
  <2> QED  BY <1>5, <2>2 DEF SeVeIgual, Creados, Esta
<1>6. ASSUME NEW m \in Nombres \ {n}, m \in Creados
      PROVE  SeVeIgual(m)
  <2> PICK i \in 1..Len(l) : l[i].nombre = m
    BY <1>1, <1>6 DEF AlCompactar, Apariciones
  <2> PICK A : A = BloquesAntes(l, n, i)
    OBVIOUS
  <2>1. Unica(l, m, i)
    BY <1>1 DEF UnFcb, Unica
  <2>2. Apariciones(l, m) # {} /\ Max(Apariciones(l, m)) = i
    <3> PICK h : h = m
      OBVIOUS
    <3>1. l \in Seq(Fcb) /\ Unica(l, h, i)
      BY <1>1, <2>1
    <3>2. Apariciones(l, h) = {i} /\ Max(Apariciones(l, h)) = i
      BY ONLY <3>1, PosicionUnica
    <3> QED  BY <3>2
  <2>3. metadata'[m] = [metadata[m] EXCEPT !.bloque = A]
    BY <1>2, <2>2
  <2>4. metadata[m] \in [bloque: Bits \union {SinBloque}, tamanio: Nat \union {Ausente}]
    BY <1>4
  <2>5. metadata'[m].bloque = A /\ metadata'[m].tamanio = metadata[m].tamanio
    BY <2>3, <2>4
  <2>6. /\ TamanioVisto(m) = metadata[m].tamanio /\ TamanioVisto(m) \in Nat
        /\ Donde(m) = metadata[m].bloque /\ Donde(m) \in Nat
        /\ Cuantos(m) \in Nat \ {0}
        /\ TamanioVisto(m) > 0 => TamanioVisto(m) <= BLOCK_SIZE * Cuantos(m)
    BY <1>1, <1>6, BytesEnBloques
  <2>7. l[i] = FcbLeido(m) /\ Esta(m)
    BY <1>1, <1>3 DEF FcbsFieles, UnFcb
  <2>8. /\ l[i].bloque = Donde(m) /\ l[i].tamanio = TamanioVisto(m)
        /\ l[i].tamanio_en_bloques = Cuantos(m)
    <3>1. FcbLeido(m) = [nombre |-> m, bloque |-> metadata[m].bloque,
                         tamanio |-> metadata[m].tamanio,
                         tamanio_en_bloques |-> tamanio_en_bloques(metadata[m].tamanio)]
      BY <1>1, <2>7, EnReposo DEF DInv
    <3>2. Cuantos(m) = tamanio_en_bloques(metadata[m].tamanio)
      BY <1>3 DEF Cuantos
    <3> QED  BY <3>1, <3>2, <2>6, <2>7
  <2>9. A \in Nat /\ D \in Nat /\ A + Cuantos(m) <= D
    <3>1. i \in 1..(Len(l) + 1) /\ Len(l) + 1 \in 1..(Len(l) + 1) /\ i < Len(l) + 1
      BY <1>1
    <3>2. A \in Nat /\ D \in Nat
      BY <1>1, <3>1, RecorridosFinitos DEF BloquesDeOtros
    <3>3. A + l[i].tamanio_en_bloques <= D
      BY <1>1, <3>1, UnoTrasOtro DEF BloquesDeOtros
    <3> QED  BY <3>2, <3>3, <2>8
  <2>10. m \in Creados' /\ TamanioVisto(m)' = TamanioVisto(m) /\ Donde(m)' = A
    <3>1. TamanioVisto(m)' = TamanioVisto(m) /\ Donde(m)' = A
      BY <1>3, <2>5, <2>6 DEF TamanioVisto, Donde
    <3>2. A # SinBloque
      BY <2>9 DEF SinBloque
    <3>3. metadata'[m] # SinArchivo
      BY <2>5, <2>9, <3>2 DEF SinArchivo
    <3> QED  BY <3>1, <3>2, <3>3, <2>5 DEF Creados, Esta
  <2>11. TamanioVisto(m) # 0 => A = Donde(m)
    BY <1>1, <1>2, <2>6, <2>8 DEF MudaDatos
  <2>12. ASSUME NEW k \in 0..(TamanioVisto(m) - 1), Lugar(m, k) \in Bytes
         PROVE  bloques'[Lugar(m, k)] = bloques[Lugar(m, k)]
    <3> PICK c, s : c = Cuantos(m) /\ s = BLOCK_SIZE
      OBVIOUS
    <3>1. /\ A = Donde(m) /\ s \in Nat /\ k \in Nat /\ k < s * c
          /\ A \in Nat /\ c \in Nat /\ D \in Nat /\ A + c <= D
      <4>1. TamanioVisto(m) > 0 /\ s \in Nat /\ s * c \in Nat
        BY <2>6, Constantes
      <4>2. k < s * c
        BY <4>1, <2>6
      <4> QED  BY <4>1, <4>2, <2>6, <2>9, <2>11
    <3>2. Lugar(m, k) = s * A + k
      BY <3>1 DEF Lugar
    <3>3. s * A + s * c <= s * D
      BY <3>1, UnosTrasOtros
    <3>4. Lugar(m, k) < BLOCK_SIZE * D
      <4> PICK x, y, z : x = s * A /\ y = s * c /\ z = s * D
        OBVIOUS
      <4>1. x \in Nat /\ y \in Nat /\ z \in Nat
        <5>1. s \in Nat /\ A \in Nat /\ c \in Nat /\ D \in Nat
          BY <3>1
        <5>2. s * A \in Nat /\ s * c \in Nat /\ s * D \in Nat
          BY ONLY <5>1
        <5> QED  BY <5>2
      <4>2. k \in Nat /\ k < y
        BY <3>1
      <4>3. x + y <= z
        BY <3>3
      <4>4. x + k < z
        BY ONLY <4>1, <4>2, <4>3
      <4> QED  BY <3>2, <4>4
    <3> QED  BY <1>2, <2>12, <3>4 DEF BloquesCompactados
  <2> QED  BY <1>6, <2>10, <2>11, <2>12 DEF SeVeIgual
<1>7. /\ tamanioDe' = [tamanioDe EXCEPT ![n] = tamanioDe'[n]]
      /\ guardadoDe' = [guardadoDe EXCEPT ![n] = guardadoDe'[n]]
  BY <1>5, <1>6, LosOtrosIgual
<1>8. n \in Creados' /\ TamanioVisto(n) = 0 /\ TamanioVisto(n)' = nuevo
  <2>1. metadata'[n] = metadata[n]
    BY <1>2
  <2>2. op'.nuevo = nuevo /\ EnCurso({"guardar_mudado"}, n)'
    BY <1>2, <1>3
  <2>3. TamanioVisto(n) = 0 /\ TamanioVisto(n)' = nuevo
    BY <1>1, <1>3, <2>2 DEF TamanioVisto
  <2> QED  BY <1>1, <2>1, <2>3 DEF Creados, Esta
<1>9. Visto /\ Visto'
  BY SeVe, PTL
<1>10. /\ tamanioDe[n] = 0 /\ guardadoDe[n] = {}
       /\ tamanioDe'[n] = nuevo /\ guardadoDe'[n] = Escritos(n)'
  <2>1. Escritos(n) = {}
    BY <1>8 DEF Escritos
  <2> QED  BY <2>1, <1>1, <1>8, <1>9 DEF Visto
<1>11. Escritos(n)' \subseteq 0..(nuevo - 1)
  BY <1>8 DEF Escritos
<1>12. Promesa!Truncar(n)
  BY <1>7, <1>10, <1>11
     DEF Promesa!Truncar, Promesa!Existe, Promesa!SoloCambia, Ausente
<1> QED  BY <1>12 DEF Promesa!Next

LEMMA TruncarEsTruncar ==
  ASSUME SoloDatos, DInv, DInv', NEW n \in Nombres, NEW nuevo \in 0..MaxTamanio,
         Truncar(n, nuevo), ~MudanzaDeDatos(n)
  PROVE  Promesa!Next \/ UNCHANGED <<tamanioDe, guardadoDe>>
<1> PICK l, f : l = ConFcb(n) /\ f = l[Posicion(l, n)]
  OBVIOUS
<1> DEFINE a == PorAgregar(f, nuevo)
           fin == f.bloque + f.tamanio_en_bloques
<1>0. nuevo \in Nat
  BY Constantes
<1>1. Pedible(n) /\ op = Reposo /\ TruncadoCubierto(f, nuevo)
  BY DEF Truncar, Pedible, Libre
<1>2. PedidoBien(l, n) /\ DiscoBien
  BY <1>1, ConFcbBien DEF DInv
<1>3. f = FcbLeido(n) /\ Esta(n)
  BY <1>2 DEF PedidoBien
<1>4. \A m : ~EnCurso({"guardar_mudado"}, m)
  BY <1>1 DEF EnCurso, Reposo
<1>5. CASE UNCHANGED <<metadata, bloques>> /\ op'.pc # "guardar_mudado"
  <2>1. \A m : ~EnCurso({"guardar_mudado"}, m)'
    BY <1>5 DEF EnCurso
  <2>2. \A m \in Nombres : SeVeIgual(m)
    BY <2>1, <1>4, <1>5, MismosDatos
  <2> QED  BY <2>2, TodosIgual
<1>6. CASE a \in 1..cantidad_bloques_libres /\ ~HaySeguidos(fin, a) /\ Compactar(l, n, nuevo)
  <2>1. f.tamanio \in Nat /\ f.tamanio_en_bloques = tamanio_en_bloques(f.tamanio)
    BY <1>1, <1>3, EnReposo DEF DInv
  <2>3. /\ tamanio_en_bloques(nuevo) \in Nat \ {0}
        /\ \/ f.tamanio = 0 /\ a = tamanio_en_bloques(nuevo) - 1
           \/ a \in {-1, 0}
    BY <1>0, <1>1, <2>1, Agrega
  <2> HIDE DEF a
  <2>4. f.tamanio = 0 /\ tamanio_en_bloques(nuevo) - 1 \in 1..cantidad_bloques_libres
    BY <1>6, <2>3
  <2>5. \A m \in Creados : Apariciones(l, m) # {}
    BY <1>6 DEF Compactar, FaltaCargar, SoloDatos
  <2>6. AlCompactar(l, n, nuevo)
    BY <1>1, <1>2, <1>3, <2>4, <2>5 DEF AlCompactar, DiscoBien
  <2>7. op'.pc = "guardar_mudado"
    BY <1>6 DEF Compactar
  <2>8. ~MudaDatos(l, n)
    BY <2>7 DEF MudanzaDeDatos
  <2> QED
    BY <1>0, <1>6, <2>6, <2>8, CompactarEsTruncar
<1> QED
  <2>1. Reposo.pc # "guardar_mudado"
    BY DEF Reposo
  <2>2. AlGuardar(l, n, nuevo) => UNCHANGED <<metadata, bloques>> /\ op'.pc # "guardar_mudado"
    BY DEF AlGuardar
  <2> HIDE DEF a, fin
  <2>3. \/ UNCHANGED <<metadata, bloques, op>>
        \/ AlGuardar(l, n, nuevo)
        \/ a \in 1..cantidad_bloques_libres /\ ~HaySeguidos(fin, a) /\ Compactar(l, n, nuevo)
    BY DEF Truncar, a, fin
  <2> QED  BY <2>1, <2>2, <2>3, <1>1, <1>5, <1>6

LEMMA PasoDeArchivos ==
  ASSUME SoloDatos, DInv, DInv', [Next]_dvars,
         ~\E n \in Nombres : MudanzaDeDatos(n) \/ EscrituraDesviada(n)
  PROVE  Promesa!Next \/ UNCHANGED <<tamanioDe, guardadoDe>>
<1>1. ASSUME UNCHANGED <<metadata, bloques>>,
             op.pc # "guardar_mudado", op'.pc # "guardar_mudado"
      PROVE  UNCHANGED <<tamanioDe, guardadoDe>>
  <2>1. \A m : ~EnCurso({"guardar_mudado"}, m) /\ ~EnCurso({"guardar_mudado"}, m)'
    BY <1>1 DEF EnCurso
  <2>2. \A m \in Nombres : SeVeIgual(m)
    BY <2>1, <1>1, MismosDatos
  <2> QED  BY <2>2, TodosIgual
<1>2. ASSUME NEW n \in Nombres, Pedido(n)
      PROVE  Promesa!Next \/ UNCHANGED <<tamanioDe, guardadoDe>>
  <2>1. CASE CrearSinLugar(n) \/ PedirInexistente(n) \/ Borrar(n) \/ Leer(n)
    <3>1. /\ UNCHANGED <<metadata, bloques>> /\ op = Reposo
          /\ op' = op \/ op'.pc = "quitar"
      <4>1. CASE CrearSinLugar(n)
        BY <4>1 DEF CrearSinLugar, Libre, dvars
      <4>2. CASE PedirInexistente(n)
        BY <4>2 DEF PedirInexistente, Libre
      <4>3. CASE Leer(n)
        BY <4>3 DEF Leer, Pedible, Libre
      <4>4. CASE Borrar(n)
        BY <4>4 DEF Borrar, Pedible, Libre
      <4> QED  BY <2>1, <4>1, <4>2, <4>3, <4>4
    <3> QED  BY <3>1, <1>1 DEF Reposo
  <2>2. CASE Crear(n)
    BY <2>2, CrearNoSeVe
  <2>3. CASE \E nuevo \in 0..MaxTamanio : Truncar(n, nuevo)
    BY <2>3, TruncarEsTruncar
  <2>4. CASE \E puntero \in 0..(MaxTamanio - 1), tamanio \in Largos :
               Escribir(n, puntero, tamanio)
    BY <2>4, EscribirEsEscribir
  <2> QED
    BY <1>2, <2>1, <2>2, <2>3, <2>4 DEF Pedido
<1>3. ASSUME Continua
      PROVE  Promesa!Next \/ UNCHANGED <<tamanioDe, guardadoDe>>
  <2>1. CASE MarcarBloque
    <3>1. UNCHANGED <<metadata, bloques>> /\ op.pc = "marcar" /\ op'.pc = "reposo"
      BY <2>1 DEF MarcarBloque, Reposo
    <3> QED  BY <3>1, <1>1
  <2> QED
    BY <1>3, <2>1, AsignarEsCrear, QuitarEsBorrar, GuardarEsTruncar DEF Continua
<1>4. CASE Reiniciar
  <2>1. UNCHANGED <<metadata, bloques>> /\ op = Reposo /\ op' = Reposo
    BY <1>4 DEF Reiniciar, SoloDatos
  <2> QED  BY <2>1, <1>1 DEF Reposo
<1>5. CASE UNCHANGED dvars
  <2>1. UNCHANGED <<lista_fat, metadata, bloques, op>>
    BY <1>5 DEF dvars
  <2>2. \A n : FcbDe(n)' = FcbDe(n)
    BY <2>1 DEF FcbDe, FcbLeido
  <2>3. Creados' = Creados
    BY <2>1 DEF Creados, Esta
  <2>4. \A n : Guardado(n)' = Guardado(n)
    BY <2>1, <2>2, <2>3 DEF Guardado
  <2> QED  BY <2>2, <2>3, <2>4 DEF tamanioDe, guardadoDe
<1> QED
  BY <1>2, <1>3, <1>4, <1>5 DEF Next

-----------------------------------------------------------------------------
(* Theorems *)

\* Every variable keeps its type: no block number leaves the bitmap.
THEOREM DialFsTipos ==
  ASSUME SinBitsDeMas, SoloDatos
  PROVE  Spec => []TypeOK
<1>1. DInv => TypeOK
  BY DEF DInv
<1> QED  BY <1>1, DInvSiempre, PTL

\* Files never share a block, nor have one the block file lacks, whatever
\* requests and restarts there were.
THEOREM DialFsExtensiones ==
  ASSUME SinBitsDeMas, SoloDatos
  PROVE  Spec => []ExtensionesDisjuntas
<1>1. DInv => ExtensionesDisjuntas
  BY DiscoDisjunto DEF DInv
<1> QED  BY <1>1, DInvSiempre, PTL

\* Between requests a bit is set exactly when a file has the block.
THEOREM DialFsBitmap ==
  ASSUME SinBitsDeMas, SoloDatos
  PROVE  Spec => []BitmapExacto
<1>1. DInv => BitmapExacto
  BY DiscoExacto DEF DInv
<1> QED  BY <1>1, DInvSiempre, PTL

\* Between requests the FCBs in memory are those a restart would load.
THEOREM DialFsMetadata ==
  ASSUME SinBitsDeMas, SoloDatos
  PROVE  Spec => []MetadataFiel
<1>1. DInv => MetadataFiel
  BY DiscoFiel DEF DInv
<1> QED  BY <1>1, DInvSiempre, PTL

\* To the programs the interface is a set of files that only their operations
\* change: what was written to a file is found in it until it is deleted or
\* truncated, whatever restarts and compactions there were, unless a compaction
\* moved a file with contents or a WRITE was not aligned or ran past the end.
THEOREM DialFsSoloEsoDania ==
  ASSUME SinBitsDeMas, SoloDatos
  PROVE  Spec => SoloEsoDania
<1>1. Spec => []DInv
  BY DInvSiempre
<1>2. DInv /\ DInv' /\ [Next]_dvars
        => [\/ [Promesa!Next]_(Promesa!avars)
            \/ \E n \in Nombres : MudanzaDeDatos(n) \/ EscrituraDesviada(n)]_dvars
  BY PasoDeArchivos DEF Promesa!avars
<1> QED
  BY <1>1, <1>2, PTL DEF Spec, SoloEsoDania
=============================================================================
