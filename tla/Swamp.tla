-------------------------------- MODULE Swamp --------------------------------
(***************************************************************************)
(* SWAmP (src/carpinchos/swamp/src/swamp.c), the swap of CarpinchOS: a     *)
(* process of one thread with a few files of frames, a bitmap of each, and *)
(* the pages of each carpincho, which are all in one file. Its client, one *)
(* at a time, is the memory (src/carpinchos/memoria/src/swap.c), that says *)
(* when it connects whether each carpincho has its pages given in advance  *)
(* (FIJA) or as it writes them (DINAMICA).                                 *)
(*                                                                         *)
(* A request is one action, from the packet to the answer: nobody else     *)
(* touches the files meanwhile, and the memory waits for the answer. What  *)
(* the memory itself does with it is not modelled: it may ask for anything *)
(* swap.c can ask, of any carpincho and any page.                          *)
(***************************************************************************)
EXTENDS Integers, SequencesExt

CONSTANTS
  Pids,                \* carpinchos; one that was closed stands for a later one
  Contenidos,          \* what a page may have
  CERO,                \* a page of zeros
  Configuraciones,     \* configuration files: how many files (ARCHIVOS_SWAP), and
                       \* frames in each (TAMANIO_SWAP / TAMANIO_PAGINA)
  MARCOS_MAXIMOS,      \* frames of each carpincho, under FIJA
  MaxPagina            \* bound: the highest page that is asked for

ASSUME SwampAssumption ==
  /\ Configuraciones \subseteq [archivos : Nat \ {0}, paginas : Nat \ {0}]
  /\ MARCOS_MAXIMOS \in Nat \ {0} /\ MaxPagina \in Nat

VARIABLES
  config,       \* the configuration file
  conectada,    \* whether there is a memory
  asignacion,   \* "FIJA" or "DINAMICA"
  archivos,     \* what each frame of each file has
  bitmaps,      \* the frames of each file that are in use
  carpinchos,   \* of each one, its file (-1 if it has none) and its pages
  respuesta,    \* the last answer
  caida         \* whether it has written out of a bitmap or through a null pointer

vars == <<config, conectada, asignacion, archivos, bitmaps, carpinchos, respuesta, caida>>

Archivos == 0..(config.archivos - 1)
Marcos == 0..(config.paginas - 1)
Numeros == 0..MaxPagina
MATE_READ_FAULT == -6

-------------------------------------------------------------------------------
\* Slip: the frame after the last is taken for one of the file.
LibresDeMas(a) == (0..config.paginas) \ bitmaps[a]
Libres(a) == Marcos \ bitmaps[a]

\* tamanio_archivo
tamanio_archivo(a) == Cardinality(Libres(a))

\* archivo_con_mas_espacio: the first of those with most free frames.
archivo_con_mas_espacio ==
  CHOOSE a \in Archivos : \A b \in Archivos :
    /\ tamanio_archivo(b) <= tamanio_archivo(a)
    /\ b < a => tamanio_archivo(b) < tamanio_archivo(a)

Primero(a) == Min(Libres(a))

Paginas(pid) == carpinchos[pid].paginas
Existe(pid, n) == pid \in DOMAIN carpinchos /\ n < Len(Paginas(pid)) /\ ~Paginas(pid)[n + 1].libre

\* Slip: the frames of the pages that are free stay in use.
MarcosEscritos(paginas) == {p.marco : p \in {q \in ToSet(paginas) : ~q.libre}}
MarcosDe(paginas) == {p.marco : p \in ToSet(paginas)}

\* Slips: a frame keeps what it had; every frame of the file loses it.
SinCeros(contenido, marcos) == contenido
CerosTodos(contenido, marcos) == [m \in Marcos |-> CERO]
Ceros(contenido, marcos) == [m \in Marcos |-> IF m \in marcos THEN CERO ELSE contenido[m]]

Contestar(r) == respuesta' = r
Sigue == conectada /\ ~caida /\ UNCHANGED <<config, conectada, asignacion>>
Quietos == UNCHANGED <<archivos, bitmaps, carpinchos, caida>>

-------------------------------------------------------------------------------
\* The memory connects, and says how it assigns (main, conectar_swamp).
Conectar(tipo) ==
  /\ ~conectada /\ ~caida
  /\ conectada' = TRUE /\ asignacion' = tipo
  /\ Quietos /\ UNCHANGED <<config, respuesta>>

\* The memory ends or dies, and limpieza forgets all that was its own.
Desconectar ==
  /\ conectada /\ ~caida
  /\ conectada' = FALSE
  /\ archivos' = [a \in Archivos |-> [m \in Marcos |-> CERO]]
  /\ bitmaps' = [a \in Archivos |-> {}]
  /\ carpinchos' = <<>>
  /\ UNCHANGED <<config, asignacion, respuesta, caida>>

\* HANDSHAKE_CARPINCHO (iniciar_carpincho). Under FIJA it has MARCOS_MAXIMOS
\* frames from the first that is free, whether those after it are free or not.
\* The answer, where it goes in the list, is here a 0.
Nuevo(pid, archivo, paginas) ==
  /\ carpinchos' = [p \in DOMAIN carpinchos \cup {pid} |->
                     IF p = pid THEN [archivo |-> archivo, paginas |-> paginas] ELSE carpinchos[p]]
  /\ Contestar(0)

Iniciar(pid) ==
  LET a == archivo_con_mas_espacio
      marcos == [i \in 1..MARCOS_MAXIMOS |-> Primero(a) + i - 1]
  IN /\ Sigue /\ pid \notin DOMAIN carpinchos
     /\ \/ /\ asignacion = "DINAMICA"
           /\ Nuevo(pid, -1, <<>>)
           /\ UNCHANGED bitmaps
        \/ /\ asignacion = "FIJA" /\ tamanio_archivo(a) >= MARCOS_MAXIMOS
           /\ Nuevo(pid, a, [i \in 1..MARCOS_MAXIMOS |-> [marco |-> marcos[i], libre |-> TRUE]])
           /\ bitmaps' = [bitmaps EXCEPT ![a] = @ \cup ToSet(marcos)]
        \/ /\ asignacion = "FIJA" /\ tamanio_archivo(a) < MARCOS_MAXIMOS
           /\ Contestar(-1)
           /\ UNCHANGED <<carpinchos, bitmaps>>
     /\ UNCHANGED <<archivos, caida>>

\* CLOSE_CARPINCHO (destruir_carpincho), which has no answer.
Cerrar(pid) ==
  LET a == carpinchos[pid].archivo
  IN /\ Sigue /\ pid \in DOMAIN carpinchos
     /\ IF Paginas(pid) = <<>> THEN UNCHANGED <<archivos, bitmaps>>
        ELSE /\ bitmaps' = [bitmaps EXCEPT ![a] = @ \ MarcosDe(Paginas(pid))]
             /\ archivos' = [archivos EXCEPT ![a] = Ceros(@, MarcosDe(Paginas(pid)))]
     /\ carpinchos' = Restrict(carpinchos, DOMAIN carpinchos \ {pid})
     /\ UNCHANGED <<respuesta, caida>>

\* PAGE_WRITE (escribir_pagina): what is written, once there is a frame for it.
Guardar(a, marco, c) == archivos' = [archivos EXCEPT ![a][marco] = c]

\* Under DINAMICA, to the frame of the page, or to one more (agregar_pagina) for
\* the page after the last. The bitmap says it has eight times as many bits as
\* it has: with no frame left it is the heap after it that says whether there is
\* one more, out of the file.
EscribirDinamica(pid, n, c) ==
  LET cantidad == Len(Paginas(pid))
      a == IF cantidad = 0 THEN archivo_con_mas_espacio ELSE carpinchos[pid].archivo
      carpincho == [carpinchos[pid] EXCEPT !.archivo = a]
  IN /\ Sigue /\ pid \in DOMAIN carpinchos /\ asignacion = "DINAMICA"
     /\ \/ /\ n < cantidad
           /\ UNCHANGED <<bitmaps, carpinchos, caida>>
           /\ Contestar(0)
           /\ Guardar(a, Paginas(pid)[n + 1].marco, c)
        \/ /\ n = cantidad /\ Libres(a) # {}
           /\ Contestar(0) /\ UNCHANGED caida
           /\ LET marco == Primero(a)
              IN /\ Guardar(a, marco, c)
                 /\ bitmaps' = [bitmaps EXCEPT ![a] = @ \cup {marco}]
                 /\ carpinchos' = [carpinchos EXCEPT ![pid] =
                      [carpincho EXCEPT !.paginas = Append(@, [marco |-> marco, libre |-> FALSE])]]
        \/ /\ n = cantidad /\ Libres(a) = {}
           /\ caida' = TRUE
           /\ UNCHANGED <<archivos, bitmaps, carpinchos, respuesta>>
        \/ /\ n > cantidad \/ (n = cantidad /\ Libres(a) = {})
           /\ carpinchos' = [carpinchos EXCEPT ![pid] = carpincho]
           /\ Contestar(-1)
           /\ UNCHANGED <<archivos, bitmaps, caida>>

\* Under FIJA, to the frame of the first page that is free, whichever page was
\* asked for, which is the one that is free no more.
EscribirFija(pid, n, c) ==
  LET libres == {i \in DOMAIN Paginas(pid) : Paginas(pid)[i].libre}
  IN /\ Sigue /\ pid \in DOMAIN carpinchos /\ asignacion = "FIJA"
     /\ \/ /\ libres = {}
           /\ Contestar(-1) /\ Quietos
        \/ /\ libres # {} /\ n < Len(Paginas(pid))
           /\ Guardar(carpinchos[pid].archivo, Paginas(pid)[Min(libres)].marco, c)
           /\ carpinchos' = [carpinchos EXCEPT ![pid].paginas[n + 1].libre = FALSE]
           /\ Contestar(0)
           /\ UNCHANGED <<bitmaps, caida>>
        \/ /\ libres # {} /\ n >= Len(Paginas(pid))
           /\ caida' = TRUE
           /\ UNCHANGED <<archivos, bitmaps, carpinchos, respuesta>>

EscribirDesconocido(pid, n) ==
  /\ Sigue /\ pid \notin DOMAIN carpinchos
  /\ Contestar(-1) /\ Quietos

\* PAGE_READ (leer_pagina)
Leer(pid, n) ==
  /\ Sigue
  /\ Contestar(IF Existe(pid, n) THEN archivos[carpinchos[pid].archivo][Paginas(pid)[n + 1].marco]
               ELSE MATE_READ_FAULT)
  /\ Quietos

\* Slip: the page stays where it was, and it is the last that leaves.
SacarUltima(paginas, n) == Front(paginas)
Sacar(paginas, n) == RemoveAt(paginas, n + 1)

\* PAGE_REMOVE (eliminar_pagina): under FIJA the page goes to the end of the
\* list, free.
Eliminar(pid, n) ==
  LET a == carpinchos[pid].archivo
      pagina == Paginas(pid)[n + 1]
      quedan == Sacar(Paginas(pid), n)
  IN /\ Sigue
     /\ \/ /\ Existe(pid, n) /\ Contestar(0) /\ UNCHANGED caida
           /\ archivos' = [archivos EXCEPT ![a] = Ceros(@, {pagina.marco})]
           /\ \/ /\ asignacion = "DINAMICA"
                 /\ carpinchos' = [carpinchos EXCEPT ![pid].paginas = quedan]
                 /\ bitmaps' = [bitmaps EXCEPT ![a] = @ \ {pagina.marco}]
              \/ /\ asignacion = "FIJA"
                 /\ carpinchos' = [carpinchos EXCEPT ![pid].paginas = Append(quedan, [pagina EXCEPT !.libre = TRUE])]
                 /\ UNCHANGED bitmaps
        \/ ~Existe(pid, n) /\ Contestar(-1) /\ Quietos

\* get_config, iniciar_archivos
Init ==
  /\ config \in Configuraciones
  /\ conectada = FALSE /\ asignacion = "FIJA"
  /\ archivos = [a \in Archivos |-> [m \in Marcos |-> CERO]]
  /\ bitmaps = [a \in Archivos |-> {}]
  /\ carpinchos = <<>> /\ respuesta = 0 /\ caida = FALSE

\* A request of the memory for a carpincho (recibir).
Pedido(pid) ==
  \/ Iniciar(pid) \/ Cerrar(pid)
  \/ \E n \in Numeros :
       \/ Leer(pid, n) \/ Eliminar(pid, n) \/ EscribirDesconocido(pid, n)
       \/ \E c \in Contenidos : EscribirDinamica(pid, n, c) \/ EscribirFija(pid, n, c)

Next ==
  \/ \E tipo \in {"FIJA", "DINAMICA"} : Conectar(tipo)
  \/ Desconectar
  \/ \E pid \in Pids : Pedido(pid)

Spec == Init /\ [][Next]_vars

-------------------------------------------------------------------------------
TypeOK ==
  /\ config \in Configuraciones
  /\ conectada \in BOOLEAN /\ caida \in BOOLEAN /\ asignacion \in {"FIJA", "DINAMICA"}
  /\ archivos \in [Archivos -> [Marcos -> Contenidos \cup {CERO}]]
  /\ bitmaps \in [Archivos -> SUBSET Marcos]
  /\ DOMAIN carpinchos \subseteq Pids
  /\ \A pid \in DOMAIN carpinchos :
       /\ carpinchos[pid].archivo \in Archivos \cup {-1}
       /\ \A p \in ToSet(Paginas(pid)) : p.marco \in Marcos /\ p.libre \in BOOLEAN

\* Two pages, of one carpincho or of two, never have the same frame, and the
\* bitmaps have as in use the frames that pages have, neither more nor less:
\* what iniciar_carpincho takes for granted of the frames it does not look at.
MarcosPropios ==
  /\ \A p, q \in DOMAIN carpinchos : \A i \in DOMAIN Paginas(p), j \in DOMAIN Paginas(q) :
       /\ carpinchos[p].archivo = carpinchos[q].archivo
       /\ Paginas(p)[i].marco = Paginas(q)[j].marco
       => p = q /\ i = j
  /\ \A a \in Archivos :
       bitmaps[a] = UNION {{Paginas(p)[i].marco : i \in DOMAIN Paginas(p)} :
                             p \in {q \in DOMAIN carpinchos : carpinchos[q].archivo = a}}

\* A frame that is given to a carpincho has nothing of the one that had it.
MarcosLimpios ==
  \A a \in Archivos : \A m \in Marcos \ bitmaps[a] : archivos[a][m] = CERO

-------------------------------------------------------------------------------
Contenido(pid) == [i \in DOMAIN Paginas(pid) |-> archivos[carpinchos[pid].archivo][Paginas(pid)[i].marco]]

\* What is asked for a carpincho, under either assignment and whatever the
\* answer, is of that one alone: every other has the pages it had, with what they
\* had.
OtrosQuietos ==
  [][\A pid \in Pids : Pedido(pid) =>
       \A q \in Pids \ {pid} :
         /\ q \in DOMAIN carpinchos <=> q \in DOMAIN carpinchos'
         /\ q \in DOMAIN carpinchos => carpinchos'[q] = carpinchos[q] /\ Contenido(q)' = Contenido(q)]_vars

Abs == INSTANCE SwapAbstracto WITH
  contenido <- [pid \in DOMAIN carpinchos |-> Contenido(pid)], READ_FAULT <- MATE_READ_FAULT

\* With DINAMICA it is the swap the memory expects: each request does what was
\* asked, of the page that was asked for, and is answered so. (With FIJA it is
\* not: see EscribirFija.)
ImplementaSwap ==
  [][~caida' /\ asignacion = "DINAMICA" =>
       /\ Desconectar => Abs!Limpiar
       /\ \A pid \in Pids :
            /\ Iniciar(pid) => Abs!Iniciar(pid)
            /\ Cerrar(pid) => Abs!Cerrar(pid)
            /\ \A n \in Numeros :
                 /\ Leer(pid, n) => Abs!Leer(pid, n)
                 /\ Eliminar(pid, n) => Abs!Eliminar(pid, n)
                 /\ \A c \in Contenidos : EscribirDinamica(pid, n, c) => Abs!Escribir(pid, n, c)]_vars

===============================================================================
