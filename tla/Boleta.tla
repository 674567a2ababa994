------------------------------- MODULE Boleta -------------------------------
(***************************************************************************)
(* The voter's side of an election: MisVotacionesPage, VotacionPage (the   *)
(* three steps of the ballot) and ComprobantePage, in one tab of one       *)
(* account, over a network that loses requests and answers.  A fetch is a  *)
(* record of `llamadas': "ida" until the server handles it, "vuelta" until *)
(* the tab gets the answer, "huerfana" once no page waits for it.  The     *)
(* server is the one of module Votos, here as one atomic step per request. *)
(*                                                                         *)
(* 403 is left out (the rights are the account's own) and so is            *)
(* SIN_DERECHO, which no proceso opened by abrir() can answer.             *)
(***************************************************************************)
EXTENDS Naturals, FiniteSets

CONSTANTS
  Derechos,      \* the account's rights in the proceso (as a student, as a parent)
  Elecciones,    \* the options of the papeleta and the blank vote
  MaxMontajes,   \* bound: pages mounted
  MaxLlamadas,   \* bound: fetches at a time when one is sent
  Nulo

VARIABLES
  urna,       \* the Voto of each right, or Nulo
  cerrado,    \* now() >= fecha_cierre_prevista
  pantalla,   \* the mounted page: its props and its state
  llamadas,   \* the fetches
  montajes,   \* pages mounted so far: the identity of the mounted one
  privado     \* sessionStorage throws (private mode)

varsBoleta == <<urna, cerrado, pantalla, llamadas, montajes, privado>>

Pagina(ruta, d) ==
  [ruta |-> ruta, derecho |-> d, fase |-> "cargando", yaVoto |-> FALSE, paso |-> 1, seleccion |-> Nulo,
   consentido |-> FALSE, comprobante |-> Nulo, derechos |-> {}, clave |-> Nulo]

Get(ruta, d) == [tipo |-> ruta, derecho |-> d, eleccion |-> Nulo, clave |-> Nulo, fase |-> "ida", respuesta |-> Nulo]

InitBoleta ==
  /\ urna = [d \in Derechos |-> Nulo]
  /\ cerrado = FALSE
  /\ pantalla = Pagina("mis-votaciones", Nulo)
  /\ llamadas = {Get("mis-votaciones", Nulo)}
  /\ montajes = 1
  /\ privado \in BOOLEAN
-----------------------------------------------------------------------------
(* The fetches *)

Post(d, e, k) == [Get("emitir", d) EXCEPT !.eleccion = e, !.clave = k]

\* The effects' `activo' drops the answers of an unmounted page; a POST may still arrive.
Abandonadas == {[c EXCEPT !.fase = "huerfana"] : c \in {x \in llamadas : x.tipo = "emitir" /\ x.fase # "vuelta"}}

\* useClaveIdempotencia(): kept in sessionStorage by proceso and right, or in a ref of the component.
Clave == IF privado THEN montajes ELSE pantalla.derecho
-----------------------------------------------------------------------------
(* Navigation *)

Montar(ruta, d) ==
  /\ montajes < MaxMontajes /\ montajes' = montajes + 1
  /\ Cardinality(Abandonadas) < MaxLlamadas
  /\ pantalla' = Pagina(ruta, d)
  /\ llamadas' = Abandonadas \cup {Get(ruta, d)}
  /\ UNCHANGED <<urna, cerrado, privado>>

VerVotaciones == Montar("mis-votaciones", Nulo)
Recargar      == Montar(pantalla.ruta, pantalla.derecho)

\* An entry of MisVotacionesPage with ya_voto has no onClick.
Votar(d) ==
  /\ pantalla.ruta = "mis-votaciones" /\ [derecho |-> d, ya_voto |-> FALSE] \in pantalla.derechos
  /\ Montar("votacion", d)

\* The link of the mail.
AbrirComprobante(d) == urna[d] # Nulo /\ Montar("comprobante", d)

\* A jump of the history between two ballots: the same component, with another prop; only its
\* effect runs again, and only the fetch of that effect is dropped.
Saltar(d) ==
  /\ pantalla.ruta = "votacion" /\ d # pantalla.derecho
  /\ LET emitidas == {c \in llamadas : c.tipo = "emitir"}
     IN Cardinality(emitidas) < MaxLlamadas /\ llamadas' = emitidas \cup {Get("votacion", d)}
  /\ pantalla' = [pantalla EXCEPT !.derecho = d]
  /\ UNCHANGED <<urna, cerrado, montajes, privado>>
-----------------------------------------------------------------------------
(* The ballot *)

EnPaso(n) == pantalla.ruta = "votacion" /\ pantalla.fase = "papeleta" /\ pantalla.paso = n
SoloPantalla(p) == pantalla' = p /\ UNCHANGED <<urna, cerrado, llamadas, montajes, privado>>

\* PasoConfirmacion is mounted in the step 3 only: its checkbox starts unticked.
IrAPaso(n) == SoloPantalla([pantalla EXCEPT !.paso = n, !.consentido = FALSE])

Comenzar  == EnPaso(1) /\ ~pantalla.yaVoto /\ IrAPaso(2)
Siguiente == EnPaso(2) /\ pantalla.seleccion # Nulo /\ IrAPaso(3)
Volver    == \E n \in {2, 3} : EnPaso(n) /\ IrAPaso(n - 1)
Consentir == EnPaso(3) /\ SoloPantalla([pantalla EXCEPT !.consentido = ~pantalla.consentido])

\* The cards stay reachable behind the dialog of the step 3.
Seleccionar(e) ==
  /\ pantalla.paso # 1 /\ EnPaso(pantalla.paso) /\ e # pantalla.seleccion
  /\ SoloPantalla([pantalla EXCEPT !.seleccion = e])

Emitir ==
  /\ Cardinality(llamadas) < MaxLlamadas
  /\ pantalla' = [pantalla EXCEPT !.fase = "enviando", !.paso = 3, !.consentido = TRUE]
  /\ llamadas' = llamadas \cup {Post(pantalla.derecho, pantalla.seleccion, Clave)}
  /\ UNCHANGED <<urna, cerrado, montajes, privado>>

Confirmar  == EnPaso(3) /\ pantalla.consentido /\ pantalla.seleccion # Nulo /\ Emitir
Reintentar == pantalla.ruta = "votacion" /\ pantalla.fase \in {"sin-conexion", "error"} /\ Emitir
-----------------------------------------------------------------------------
(* The server *)

Votados == {d \in Derechos : urna[d] # Nulo}
PorClave(k) == {d \in Votados : urna[d].clave = k}
Comprobante(d, v) == [derecho |-> d, eleccion |-> v.eleccion]

\* Mutant: the window first.
ResultadoVentana(c) == IF cerrado THEN "VOTACION_CERRADA" ELSE IF c.derecho \in Votados THEN "repetido" ELSE "creado"

\* VotosService.emitir(): the same key, the window and the vote of the right, in this order.
Resultado(c) ==
  IF PorClave(c.clave) # {} THEN "repetido"
  ELSE IF cerrado THEN "VOTACION_CERRADA"
  ELSE IF urna[c.derecho] # Nulo THEN "repetido" ELSE "creado"

\* construirComprobante() reads the vote of the right after the commit, and may not find it (the
\* key of another right) or fail: the answer is then an error, whatever was registered.
AtenderEmitir(c, falla) ==
  LET r == Resultado(c)
      u == IF r = "creado" THEN [urna EXCEPT ![c.derecho] = [eleccion |-> c.eleccion, clave |-> c.clave]] ELSE urna
  IN /\ urna' = u
     /\ llamadas' = (llamadas \ {c}) \cup
          (IF c.fase = "huerfana" THEN {}
           ELSE {[c EXCEPT !.fase = "vuelta", !.respuesta =
                    [estado |-> IF r # "VOTACION_CERRADA" /\ (falla \/ u[c.derecho] = Nulo) THEN "error" ELSE r,
                     cuerpo |-> IF u[c.derecho] = Nulo THEN Nulo ELSE Comprobante(c.derecho, u[c.derecho])]]})

\* MisDerechosService.listar(): open procesos only; ya_voto is the existence of the vote.
Mios == IF cerrado THEN {} ELSE {[derecho |-> d, ya_voto |-> d \in Votados] : d \in Derechos}

\* PapeletaService.obtener(), MisDerechosService.listar() and ComprobanteService.obtener().
Leida(c) ==
  CASE c.tipo = "mis-votaciones" -> Mios
    [] c.tipo = "votacion" -> c.derecho \in Votados
    [] c.tipo = "comprobante" -> Comprobante(c.derecho, urna[c.derecho])

AtenderLectura(c) ==
  /\ llamadas' = (llamadas \ {c}) \cup {[c EXCEPT !.fase = "vuelta", !.respuesta = [estado |-> "ok", cuerpo |-> Leida(c)]]}
  /\ UNCHANGED urna

Atender(c) ==
  /\ c.fase \in {"ida", "huerfana"}
  /\ IF c.tipo = "emitir" THEN \E falla \in BOOLEAN : AtenderEmitir(c, falla) ELSE AtenderLectura(c)
  /\ UNCHANGED <<cerrado, pantalla, montajes, privado>>

\* The hour of the end, and the vote of another device of the account, with a key of its own (Nulo).
VencerPlazo ==
  /\ ~cerrado /\ cerrado' = TRUE
  /\ UNCHANGED <<urna, pantalla, llamadas, montajes, privado>>
OtroDispositivo(d, e) ==
  /\ ~cerrado /\ urna[d] = Nulo
  /\ urna' = [urna EXCEPT ![d] = [eleccion |-> e, clave |-> Nulo]]
  /\ UNCHANGED <<cerrado, pantalla, llamadas, montajes, privado>>
-----------------------------------------------------------------------------
(* The answers: setEstado() of the mounted page *)

CargarVotaciones(c) == [pantalla EXCEPT !.fase = "exito", !.derechos = c.respuesta.cuerpo]
CargarPapeleta(c) ==
  [Pagina("votacion", pantalla.derecho) EXCEPT !.fase = "papeleta", !.yaVoto = c.respuesta.cuerpo]
CargarComprobante(c) == [pantalla EXCEPT !.fase = "exito", !.comprobante = c.respuesta.cuerpo]

\* Mutant: the codes of the answer are not told apart.
FaseDeExito(r) == IF r = "VOTACION_CERRADA" THEN "cerrada" ELSE "exito"

\* confirmar(): by the status of the answer, never by its body.
Fase(r) ==
  CASE r = "creado" -> "exito" [] r = "repetido" -> "ya-votaste" [] r = "VOTACION_CERRADA" -> "cerrada" [] OTHER -> "error"

TrasEmitir(c, fase, cuerpo) ==
  [Pagina("votacion", pantalla.derecho) EXCEPT !.fase = fase,
     !.comprobante = IF fase \in {"exito", "ya-votaste"} THEN cuerpo ELSE Nulo,
     !.seleccion = IF fase \in {"error", "sin-conexion"} THEN c.eleccion ELSE Nulo,
     !.clave = IF fase = "cerrada" THEN c.clave ELSE Nulo]

Entregar(c) ==
  /\ c.fase = "vuelta"
  /\ llamadas' = llamadas \ {c}
  /\ pantalla' = CASE c.tipo = "mis-votaciones" -> CargarVotaciones(c)
                   [] c.tipo = "votacion" -> CargarPapeleta(c)
                   [] c.tipo = "comprobante" -> CargarComprobante(c)
                   [] c.tipo = "emitir" -> TrasEmitir(c, Fase(c.respuesta.estado), c.respuesta.cuerpo)
  /\ UNCHANGED <<urna, cerrado, montajes, privado>>

\* The fetch rejects: the request was lost, or is still on its way, or the answer was lost.
Cortar(c) ==
  /\ c.fase \in {"ida", "vuelta"}
  /\ \E resto \in {{}, {[c EXCEPT !.fase = "huerfana"]}} :
       /\ resto # {} => c.tipo = "emitir" /\ c.fase = "ida"
       /\ llamadas' = (llamadas \ {c}) \cup resto
  /\ pantalla' = IF c.tipo = "emitir" THEN TrasEmitir(c, "sin-conexion", Nulo) ELSE [pantalla EXCEPT !.fase = "no-disponible"]
  /\ UNCHANGED <<urna, cerrado, montajes, privado>>
-----------------------------------------------------------------------------
NextBoleta ==
  \/ VerVotaciones \/ Recargar \/ Comenzar \/ Siguiente \/ Volver \/ Consentir \/ Confirmar \/ Reintentar \/ VencerPlazo
  \/ \E d \in Derechos : Votar(d) \/ AbrirComprobante(d) \/ Saltar(d) \/ \E e \in Elecciones : OtroDispositivo(d, e)
  \/ \E e \in Elecciones : Seleccionar(e)
  \/ \E c \in llamadas : Atender(c) \/ Entregar(c) \/ Cortar(c)
-----------------------------------------------------------------------------
(* Properties *)

\* A screen with a comprobante (PanelComprobante, "ya-votaste") shows the vote the server holds.
ExitoVeraz ==
  pantalla.ruta \in {"votacion", "comprobante"} /\ pantalla.fase \in {"exito", "ya-votaste"} =>
    LET c == pantalla.comprobante IN c # Nulo /\ c.derecho \in Votados /\ c.eleccion = urna[c.derecho].eleccion

\* "Votación cerrada" is never the answer to a retry of a vote that did arrive: nothing was
\* registered under the key of the rejected request, nor will be.
CierreVeraz ==
  pantalla.fase = "cerrada" => cerrado /\ PorClave(pantalla.clave) = {}

\* "Ya votaste" blocks no right that has not voted (after a jump, once its papeleta is there).
BloqueoVeraz ==
  /\ \A x \in pantalla.derechos : x.ya_voto => x.derecho \in Votados
  /\ pantalla.fase = "papeleta" /\ pantalla.yaVoto /\ llamadas = {} => pantalla.derecho \in Votados

\* What the pages of the voter say of the vote is what was registered, whatever was lost, retried,
\* reloaded or answered late (VotacionPage.confirmar(), MisVotacionesPage, ComprobantePage).
PantallaVeraz == ExitoVeraz /\ CierreVeraz /\ BloqueoVeraz
=============================================================================
