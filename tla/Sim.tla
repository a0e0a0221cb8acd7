-------------------------------- MODULE Sim ---------------------------------
(***************************************************************************)
(* The paging simulator src/lab-07/sim.c.  Pages are counted from 0 here   *)
(* (the input counts them from 1).  asignarPagina() ignores its argument   *)
(* algoritmo, so that -f and -l are one program.                           *)
(***************************************************************************)
EXTENDS Integers, Sequences, FiniteSets, SequencesExt

CONSTANTS NUM_PROCESOS, NUM_PAGINAS, NUM_MARCOS, MaxRefs

Procesos == 1 .. NUM_PROCESOS
Paginas == 0 .. (NUM_PAGINAS - 1)
Marcos == 0 .. (NUM_MARCOS - 1)
Libre == <<-1, -1>>

VARIABLES
  memoria,    \* memoriaFisica: the process and the page in each frame
  tabla,      \* tablaPaginasProceso
  almacen,    \* the filled part of almacenamientoSecundario
  refs        \* references read so far

pvars == <<memoria, tabla, almacen, refs>>

Init ==
  /\ memoria = [m \in Marcos |-> Libre]
  /\ tabla = [p \in Procesos |-> [g \in Paginas |-> [presente |-> FALSE, lru |-> -1, marco |-> -1]]]
  /\ almacen = <<>> /\ refs = 0

(* The page is in a frame: only the counters change.                       *)
Hit(p, g) ==
  /\ \E m \in Marcos : memoria[m] = <<p, g>>
  /\ tabla' = [tabla EXCEPT ![p] = [h \in Paginas |->
                [@[h] EXCEPT !.lru = IF h = g THEN 0 ELSE IF @ = -1 THEN -1 ELSE @ + 1]]]
  /\ UNCHANGED <<memoria, almacen>>

(* The first free frame, else the first one with the largest counter.      *)
Lru(m) == tabla[memoria[m][1]][memoria[m][2]].lru
Libres == {m \in Marcos : memoria[m] = Libre}
Victima ==
  IF Libres # {} THEN CHOOSE m \in Libres : \A n \in Libres : m <= n
  ELSE CHOOSE m \in Marcos : \A n \in Marcos : Lru(n) < Lru(m) \/ (Lru(n) = Lru(m) /\ m <= n)

(* The victim leaves its frame for the secondary storage, if there is a    *)
(* free entry.                                                             *)
Kept(t, v) == t
Evicted(t, v) == IF v = Libre THEN t ELSE [t EXCEPT ![v[1]][v[2]].presente = FALSE]
Saved(v) == IF v # Libre /\ Len(almacen) < NUM_PAGINAS * NUM_PROCESOS THEN Append(almacen, v) ELSE almacen

Fault(p, g) ==
  LET m == Victima
      loaded == [Evicted(tabla, memoria[m]) EXCEPT ![p][g] = [presente |-> TRUE, lru |-> 0, marco |-> m]]
  IN
  /\ \A n \in Marcos : memoria[n] # <<p, g>>
  /\ memoria' = [memoria EXCEPT ![m] = <<p, g>>]
  /\ tabla' = [loaded EXCEPT ![p] = [h \in Paginas |-> [@[h] EXCEPT !.lru = IF @ = -1 THEN -1 ELSE @ + 1]]]
  /\ almacen' = Saved(memoria[m])

asignarPagina(p, g) ==
  /\ refs < MaxRefs /\ refs' = refs + 1
  /\ Hit(p, g) \/ Fault(p, g)

Next == \E p \in Procesos, g \in Paginas : asignarPagina(p, g)

Spec == Init /\ [][Next]_pvars

-----------------------------------------------------------------------------
(* The page tables and the frames tell the same story after any sequence   *)
(* of references of any processes: a page is present exactly when a frame  *)
(* holds it, and then the frame is the one its entry names.                *)
TablesAgree ==
  \A p \in Procesos, g \in Paginas :
    /\ tabla[p][g].presente <=> \E m \in Marcos : memoria[m] = <<p, g>>
    /\ tabla[p][g].presente => memoria[tabla[p][g].marco] = <<p, g>>

(* A page that was in memory and is there no more is in the secondary      *)
(* storage, until all its entries are in use: entries are never given      *)
(* back, also when their page is loaded again.                             *)
NoPageLost ==
  Len(almacen) < NUM_PAGINAS * NUM_PROCESOS =>
    \A p \in Procesos, g \in Paginas :
      tabla[p][g].lru # -1 /\ ~tabla[p][g].presente => <<p, g>> \in ToSet(almacen)

(* Page tables, frames and secondary storage agree.                        *)
PagesRight == TablesAgree /\ NoPageLost
=============================================================================
