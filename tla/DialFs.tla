------------------------------- MODULE DialFs -------------------------------
(***************************************************************************)
(* A DIALFS interface (entradasalida/src): the list of FCBs in memory, and *)
(* what outlives the process: the metadata files, the bitmap and the       *)
(* blocks, the last two mapped from their files.  Requests are served one  *)
(* at a time.  A step ends where the process could be killed leaving only  *)
(* part of an operation on disk; compaction, up to the metadata of the     *)
(* truncated file, is one step.                                            *)
(*                                                                         *)
(* `Casos' names the requests and events the code does not foresee that an *)
(* instance covers:                                                        *)
(*   "EXISTENTE"    CREATE of a name that exists                           *)
(*   "RETRUNCAR"    TRUNCATE of a file that is not empty, other than       *)
(*                  within its only block and with the next block free     *)
(*   "DESALINEAR"   READ or WRITE at an offset inside a block              *)
(*   "FUERA"        READ or WRITE past the end of the file                 *)
(*   "MUDAR"        a compaction that moves another file that is not empty *)
(*   "SIN CARGAR"   a compaction with files whose FCB is not in memory     *)
(*   "CAIDA"        the process is killed halfway through an operation     *)
(***************************************************************************)
EXTENDS Integers, Sequences, FiniteSets, FiniteSetsExt

CONSTANTS
  Nombres,       \* names of files
  BLOCK_SIZE,    \* bytes of a block
  BLOCK_COUNT,
  BitsPorByte,   \* 8: the bitmap file is a whole number of bytes
  MaxTamanio,    \* bound: largest size, in bytes, a TRUNCATE asks for
  Largos,        \* bound: how many bytes a WRITE has
  Casos

ASSUME DialFsAssumption ==
  /\ BLOCK_SIZE \in Nat \ {0}
  /\ BLOCK_COUNT \in Nat \ {0}
  /\ BitsPorByte \in Nat \ {0}
  /\ MaxTamanio \in Nat
  /\ Largos \subseteq Nat \ {0}
  /\ Casos \subseteq {"EXISTENTE", "RETRUNCAR", "DESALINEAR", "FUERA", "MUDAR",
                      "SIN CARGAR", "CAIDA"}

VARIABLES
  lista_fat,   \* FCBs in memory, in the order they were loaded
  metadata,    \* name -> contents of its metadata file, or SinArchivo
  bitmap,      \* bit -> set or not
  bloques,     \* byte of the block file -> what it holds
  op,          \* operation halfway through
  caido        \* the process has died, and of what

dvars == <<lista_fat, metadata, bitmap, bloques, op, caido>>

-----------------------------------------------------------------------------
(* Types *)

Ausente == -1                    \* "no such file", as a size
SinBloque == -1                  \* BLOQUE_INICIAL=NULL
SinArchivo == [bloque |-> SinBloque, tamanio |-> Ausente]
Cero == <<>>                     \* a byte nobody has written
Dato(n, k) == <<n, k>>           \* byte k of file n

\* bitarray_get_max_bit: the bits of the bytes that hold BLOCK_COUNT bits
Bits == 0..(BitsPorByte * ((BLOCK_COUNT + BitsPorByte - 1) \div BitsPorByte) - 1)

Bytes == 0..(BLOCK_SIZE * BLOCK_COUNT - 1)

Fcb == [nombre: Nombres, bloque: Bits \union {SinBloque}, tamanio: Nat,
        tamanio_en_bloques: Nat]

Reposo == [pc |-> "reposo"]

TypeOK ==
  /\ lista_fat \in Seq(Fcb)
  /\ metadata \in [Nombres -> [bloque: Bits \union {SinBloque},
                               tamanio: Nat \union {Ausente}]]
  /\ bitmap \in [Bits -> BOOLEAN]
  /\ bloques \in [Bytes -> {Cero} \union (Nombres \X Nat)]
  /\ \/ op = Reposo
     \/ op \in [pc: {"asignar", "marcar"}, nombre: Nombres, indice: Bits]
     \/ op \in [pc: {"quitar"}, nombre: Nombres, indice: Nat]
     \/ op \in [pc: {"guardar", "guardar_mudado"}, nombre: Nombres,
                nuevo: Nat]
  /\ caido \in {"", "archivo inexistente"}

-----------------------------------------------------------------------------
(* Helpers *)

\* ceil(bytes / BLOCK_SIZE), of negative numbers too; an empty file has one
tamanio_en_bloques(bytes) ==
  IF bytes = 0 THEN 1 ELSE -((-bytes) \div BLOCK_SIZE)

Esta(n) == metadata[n] # SinArchivo

\* crear_fcb: what the metadata file says; atoi("NULL") is 0
FcbLeido(n) ==
  [nombre |-> n,
   bloque |-> IF metadata[n].bloque = SinBloque THEN 0 ELSE metadata[n].bloque,
   tamanio |-> metadata[n].tamanio,
   tamanio_en_bloques |-> tamanio_en_bloques(metadata[n].tamanio)]

Apariciones(l, n) == {i \in DOMAIN l : l[i].nombre = n}

\* The list once the FCB of n is in it, loaded from its file if it was not
ConFcb(n) ==
  IF Apariciones(lista_fat, n) # {} THEN lista_fat
  ELSE Append(lista_fat, FcbLeido(n))

\* obtener_fcb: the first with the name
Posicion(l, n) == Min(Apariciones(l, n))

BitsLibres == {b \in Bits : ~bitmap[b]}

PasadoElLibre == Min(BitsLibres) + 1  \* mutant: one past the bit found
primer_bit_libre == Min(BitsLibres)

cantidad_bloques_libres == Cardinality(BitsLibres)

Poner(bs) == bitmap' = [b \in Bits |-> bitmap[b] \/ b \in bs]
Quitar(bs) == bitmap' = [b \in Bits |-> bitmap[b] /\ b \notin bs]

\* contar_bits_cero_consecutivos(desde) >= cuantos
HaySeguidos(desde, cuantos) ==
  \A b \in desde..(desde + cuantos - 1) : b \in BitsLibres

\* limpiar_N_bloque_anteriores, from `indice' (included) downwards
Anteriores(indice, cuantos) == (indice - cuantos + 1)..indice

Tramo(desde, cuantos) == desde..(desde + cuantos - 1)

\* Where the file n is, and its size, for the next request that asks for it
FcbDe(n) ==
  IF Apariciones(lista_fat, n) # {} THEN lista_fat[Posicion(lista_fat, n)]
  ELSE FcbLeido(n)

Creados == {n \in Nombres : Esta(n) /\ metadata[n].bloque # SinBloque}

BloquesDe(n) == Tramo(FcbDe(n).bloque, FcbDe(n).tamanio_en_bloques)

\* Offsets at which the file holds what was written to it
Guardado(n) ==
  IF n \notin Creados THEN {}
  ELSE {k \in 0..(FcbDe(n).tamanio - 1) :
          LET b == FcbDe(n).bloque * BLOCK_SIZE + k IN
          b \in Bytes /\ bloques[b] = Dato(n, k)}

Init ==
  /\ lista_fat = <<>>
  /\ metadata = [n \in Nombres |-> SinArchivo]
  /\ bitmap = [b \in Bits |-> FALSE]
  /\ bloques = [b \in Bytes |-> Cero]
  /\ op = Reposo
  /\ caido = ""

-----------------------------------------------------------------------------
(* IO_FS_CREATE *)

Libre == caido = "" /\ op = Reposo

\* A request for a file that has an FCB, in memory or in its metadata file
Pedible(n) == Libre /\ (Esta(n) \/ Apariciones(lista_fat, n) # {})

\* No free bit: the process is sent to EXIT with an error.
CrearSinLugar(n) ==
  /\ Libre
  /\ Esta(n) => "EXISTENTE" \in Casos
  /\ BitsLibres = {}
  /\ UNCHANGED dvars

\* inicializar_fcb: a new FCB, and a metadata file that says NULL and 0
Crear(n) ==
  /\ Libre
  /\ Esta(n) => "EXISTENTE" \in Casos
  /\ BitsLibres # {}
  /\ lista_fat' = Append(lista_fat,
       [nombre |-> n, bloque |-> SinBloque, tamanio |-> 0,
        tamanio_en_bloques |-> 1])
  /\ metadata' = [metadata EXCEPT ![n] = [bloque |-> SinBloque, tamanio |-> 0]]
  /\ op' = [pc |-> "asignar", nombre |-> n, indice |-> primer_bit_libre]
  /\ UNCHANGED <<bitmap, bloques, caido>>

\* setear_valor_entero_en_fcb(BLOQUE_INICIAL), which saves the whole file
AsignarBloque ==
  LET i == Posicion(lista_fat, op.nombre) IN
  /\ op.pc = "asignar"
  /\ lista_fat' = [lista_fat EXCEPT ![i].bloque = op.indice]
  /\ metadata' = [metadata EXCEPT ![op.nombre] =
                    [bloque |-> op.indice, tamanio |-> lista_fat[i].tamanio]]
  /\ op' = [op EXCEPT !.pc = "marcar"]
  /\ UNCHANGED <<bitmap, bloques, caido>>

MarcarBit == Poner({op.indice})

MarcarBloque ==
  /\ op.pc = "marcar"
  /\ MarcarBit
  /\ op' = Reposo
  /\ UNCHANGED <<lista_fat, metadata, bloques, caido>>

-----------------------------------------------------------------------------
(* IO_FS_DELETE *)

\* crear_fcb of a file with no metadata reads a NULL config.
PedirInexistente(n) ==
  /\ Libre
  /\ ~Pedible(n)
  /\ caido' = "archivo inexistente"
  /\ UNCHANGED <<lista_fat, metadata, bitmap, bloques, op>>

Borrar(n) ==
  LET l == ConFcb(n)
      f == l[Posicion(l, n)] IN
  /\ Pedible(n)
  /\ Quitar(Tramo(f.bloque, f.tamanio_en_bloques))
  /\ lista_fat' = l
  /\ op' = [pc |-> "quitar", nombre |-> n, indice |-> Posicion(l, n)]
  /\ UNCHANGED <<metadata, bloques, caido>>

BorrarMetadata == metadata' = [metadata EXCEPT ![op.nombre] = SinArchivo]

\* eliminar_fcb_de_fat, and destruir_fcb, which removes the metadata file
QuitarFcb ==
  /\ op.pc = "quitar"
  /\ lista_fat' = [i \in 1..(Len(lista_fat) - 1) |->
                     lista_fat[IF i < op.indice THEN i ELSE i + 1]]
  /\ BorrarMetadata
  /\ op' = Reposo
  /\ UNCHANGED <<bitmap, bloques, caido>>

-----------------------------------------------------------------------------
(* Compaction *)

\* Blocks the loop has passed before the FCB at i: the truncated file's are
\* skipped.
Recorridos(l, n, i) ==
  UNION {{j} \X (1..l[j].tamanio_en_bloques) :
           j \in {h \in 1..(i - 1) : l[h].nombre # n}}

\* contador_bloques when the loop reaches the FCB at i
BloquesAntes(l, n, i) == Cardinality(Recorridos(l, n, i))

BloquesDeOtros(l, n) == BloquesAntes(l, n, Len(l) + 1)

\* The block files move: those of another FCB are read where they are to be,
\* because bloque_inicial is overwritten before the memcpy, so only the
\* truncated file is really copied.
BloquesCompactados(l, n, f) ==
  LET fin == BLOCK_SIZE * BloquesDeOtros(l, n) IN
  [b \in Bytes |->
     IF b < fin THEN bloques[b]
     ELSE IF b - fin < BLOCK_SIZE * f.tamanio_en_bloques
          THEN bloques[BLOCK_SIZE * f.bloque + (b - fin)]
          ELSE Cero]

\* What an instance leaves out of compaction
MudaDatos(l, n) ==
  \E i \in DOMAIN l : /\ l[i].nombre # n
                      /\ l[i].bloque # BloquesAntes(l, n, i)
                      /\ l[i].tamanio > 0

FaltaCargar(l) == \E m \in Creados : Apariciones(l, m) = {}

SinContarATodos(l, n, nuevo) ==  \* mutant: the bits of the others, not set
  Tramo(BloquesDeOtros(l, n), tamanio_en_bloques(nuevo))
BitsCompactados(l, n, nuevo) ==
  Tramo(0, BloquesDeOtros(l, n) + tamanio_en_bloques(nuevo))

\* compactar_y_agregar_fcb
Compactar(l, n, nuevo) ==
  LET f == l[Posicion(l, n)] IN
  /\ MudaDatos(l, n) => "MUDAR" \in Casos
  /\ FaltaCargar(l) => "SIN CARGAR" \in Casos
  /\ lista_fat' =
       [i \in DOMAIN l |->
          IF l[i].nombre # n
          THEN [l[i] EXCEPT !.bloque = BloquesAntes(l, n, i)]
          ELSE IF i # Posicion(l, n) THEN l[i]
          ELSE [l[i] EXCEPT !.bloque = BloquesDeOtros(l, n),
                            !.tamanio = nuevo,
                            !.tamanio_en_bloques = tamanio_en_bloques(nuevo)]]
  /\ metadata' =
       [m \in Nombres |->
          IF m # n /\ Apariciones(l, m) # {}
          THEN [metadata[m] EXCEPT !.bloque =
                                     BloquesAntes(l, n, Max(Apariciones(l, m)))]
          ELSE metadata[m]]
  /\ bitmap' = [b \in Bits |-> b \in BitsCompactados(l, n, nuevo)]
  /\ bloques' = BloquesCompactados(l, n, f)
  /\ op' = [pc |-> "guardar_mudado", nombre |-> n, nuevo |-> nuevo]

-----------------------------------------------------------------------------
(* IO_FS_TRUNCATE *)

\* Blocks to add: the new size counts from the present one, not from zero.
PorAgregar(f, nuevo) ==
  tamanio_en_bloques(nuevo - f.tamanio) - f.tamanio_en_bloques

\* Sizes for which that is the right number, and the bits it frees are too
TruncadoCubierto(f, nuevo) ==
  \/ "RETRUNCAR" \in Casos
  \/ f.tamanio = 0
  \/ /\ f.tamanio <= BLOCK_SIZE
     /\ nuevo \in 1..BLOCK_SIZE
     /\ f.bloque + 1 \notin Bits \ BitsLibres

AlGuardar(l, n, nuevo) ==
  /\ lista_fat' = l
  /\ op' = [pc |-> "guardar", nombre |-> n, nuevo |-> nuevo]
  /\ UNCHANGED <<metadata, bloques>>

UnoDeMas(desde, cuantos) == Tramo(desde, cuantos + 1)  \* mutant
BitsNuevos(desde, cuantos) == Tramo(desde, cuantos)

Truncar(n, nuevo) ==
  LET l   == ConFcb(n)
      f   == l[Posicion(l, n)]
      a   == PorAgregar(f, nuevo)
      fin == f.bloque + f.tamanio_en_bloques IN
  /\ Pedible(n)
  /\ TruncadoCubierto(f, nuevo)
  /\ \/ /\ cantidad_bloques_libres < a  \* answered OK all the same
        /\ lista_fat' = l
        /\ UNCHANGED <<metadata, bitmap, bloques, op>>
     \/ /\ a = 0
        /\ AlGuardar(l, n, nuevo)
        /\ UNCHANGED bitmap
     \/ /\ a < 0
        /\ Quitar(Anteriores(fin, -a))
        /\ AlGuardar(l, n, nuevo)
     \/ /\ a > 0
        /\ HaySeguidos(fin, a)
        /\ Poner(BitsNuevos(fin, a) \intersect Bits)
        /\ AlGuardar(l, n, nuevo)
     \/ /\ a \in 1..cantidad_bloques_libres
        /\ ~HaySeguidos(fin, a)
        /\ Compactar(l, n, nuevo)
  /\ UNCHANGED caido

SinGuardar(m, i) == m  \* mutant: the metadata file keeps the old size
MetadataGuardada(m, i) ==
  [m EXCEPT !.tamanio = op.nuevo,
            !.bloque = IF op.pc = "guardar_mudado" THEN lista_fat[i].bloque
                       ELSE @]

\* TAMANIO_ARCHIVO, and BLOQUE_INICIAL after a compaction, are saved.
GuardarTruncado ==
  LET n == op.nombre
      i == Posicion(lista_fat, op.nombre) IN
  /\ op.pc \in {"guardar", "guardar_mudado"}
  /\ lista_fat' = [lista_fat EXCEPT
                     ![i].tamanio = op.nuevo,
                     ![i].tamanio_en_bloques = tamanio_en_bloques(op.nuevo)]
  /\ metadata' = [metadata EXCEPT ![n] = MetadataGuardada(@, i)]
  /\ op' = Reposo
  /\ UNCHANGED <<bitmap, bloques, caido>>

-----------------------------------------------------------------------------
(* IO_FS_WRITE and IO_FS_READ *)

AccesoCubierto(f, puntero, tamanio) ==
  /\ puntero % BLOCK_SIZE # 0 => "DESALINEAR" \in Casos
  /\ puntero + tamanio > f.tamanio => "FUERA" \in Casos

\* The access starts where the block does, whatever the offset inside it.
Base(f, puntero) == BLOCK_SIZE * (f.bloque + puntero \div BLOCK_SIZE)

BaseDelPrimero(f, puntero) == BLOCK_SIZE * f.bloque  \* mutant: one block only
DondeEscribe(f, puntero) == Base(f, puntero)

Escribir(n, puntero, tamanio) ==
  LET l == ConFcb(n)
      f == l[Posicion(l, n)]
      b0 == DondeEscribe(f, puntero) IN
  /\ Pedible(n)
  /\ AccesoCubierto(f, puntero, tamanio)
  /\ lista_fat' = l
  /\ bloques' = [b \in Bytes |->
                   IF b \in Tramo(b0, tamanio) THEN Dato(n, puntero + (b - b0))
                   ELSE bloques[b]]
  /\ UNCHANGED <<metadata, bitmap, op, caido>>

\* A READ changes nothing but the list of FCBs.
Leer(n) ==
  /\ Pedible(n)
  /\ lista_fat' = ConFcb(n)
  /\ UNCHANGED <<metadata, bitmap, bloques, op, caido>>

-----------------------------------------------------------------------------
(* The process is started again, on the same files. *)

Reiniciar ==
  /\ op = Reposo \/ "CAIDA" \in Casos
  /\ lista_fat' = <<>>
  /\ op' = Reposo
  /\ caido' = ""
  /\ UNCHANGED <<metadata, bitmap, bloques>>

Pedido(n) ==
  \/ CrearSinLugar(n) \/ Crear(n)
  \/ PedirInexistente(n)
  \/ Borrar(n)
  \/ \E nuevo \in 0..MaxTamanio : Truncar(n, nuevo)
  \/ \E puntero \in 0..(MaxTamanio - 1), tamanio \in Largos :
       Escribir(n, puntero, tamanio)
  \/ Leer(n)

Continua ==
  AsignarBloque \/ MarcarBloque \/ QuitarFcb \/ GuardarTruncado

Next == (\E n \in Nombres : Pedido(n)) \/ Continua \/ Reiniciar

Spec == Init /\ [][Next]_dvars

-----------------------------------------------------------------------------
(* Properties *)

\* Files never share a block, nor have one the block file lacks, while they
\* are created, grown, moved by a compaction, deleted and found again after a
\* restart: the bitmap is all that keeps procesar_fs_create and
\* procesar_fs_truncate from handing out a block twice.
ExtensionesDisjuntas ==
  \A m \in Creados :
    /\ BloquesDe(m) \subseteq 0..(BLOCK_COUNT - 1)
    /\ \A n \in Creados \ {m} : BloquesDe(m) \intersect BloquesDe(n) = {}

\* Between requests a bit is set exactly when a file has the block: none leaks
\* with DELETE or TRUNCATE and none in use is offered, across restarts, in
\* which the bitmap survives and the FCBs do not.
BitmapExacto ==
  op = Reposo =>
    \A b \in Bits : bitmap[b] <=> \E m \in Creados : b \in BloquesDe(m)

\* Between requests the FCBs in memory are the ones a restart would load, even
\* those a compaction has moved on behalf of another file.
MetadataFiel ==
  op = Reposo =>
    \A i \in DOMAIN lista_fat :
      /\ Esta(lista_fat[i].nombre)
      /\ FcbLeido(lista_fat[i].nombre) = lista_fat[i]

tamanioDe == [n \in Nombres |-> IF n \in Creados THEN FcbDe(n).tamanio
                                ELSE Ausente]
guardadoDe == [n \in Nombres |-> Guardado(n)]

Promesa == INSTANCE Archivos WITH tamanio <- tamanioDe, guardado <- guardadoDe

\* Seen by the programs, the interface is a set of files that only the
\* operations on them change: what was written is where it was, although the
\* blocks move and the FCBs are forgotten at each restart.
ImplementaArchivos == Promesa!Spec

\* What harms data: a compaction that moves a file with contents, and a WRITE
\* whose offset is inside a block or that goes past the end of the file
MudanzaDeDatos(n) ==
  /\ MudaDatos(ConFcb(n), n)
  /\ \E nuevo \in 0..MaxTamanio : Truncar(n, nuevo)
  /\ op'.pc = "guardar_mudado"

EscrituraDesviada(n) ==
  \E puntero \in 0..(MaxTamanio - 1), tamanio \in Largos :
    /\ \/ puntero % BLOCK_SIZE # 0
       \/ puntero + tamanio > ConFcb(n)[Posicion(ConFcb(n), n)].tamanio
    /\ Escribir(n, puntero, tamanio)

\* Nothing else does: with those requests served too, every other step, the
\* ones that follow such a harm included, is one operation on one file, which
\* keeps what was written to every file where its FCB says.
SoloEsoDania ==
  [][\/ [Promesa!Next]_(Promesa!avars)
     \/ \E n \in Nombres : MudanzaDeDatos(n) \/ EscrituraDesviada(n)]_dvars
==============================================================================
