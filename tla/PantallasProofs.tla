--------------------------- MODULE PantallasProofs ---------------------------
(***************************************************************************)
(* What the pages of Pantallas never show nor do, for every number of      *)
(* rights, options, rows, calls and mounts: an inductive invariant for     *)
(* each of the three modules it composes, and what follows from them.      *)
(***************************************************************************)
EXTENDS Pantallas, FiniteSetTheorems, WellFoundedInduction, TLAPS
-----------------------------------------------------------------------------
(* The pages of the voter *)

Claves   == Derechos \cup Nat \cup {Nulo}
Opciones == Elecciones \cup {Nulo}
Votos    == [eleccion : Opciones, clave : Claves]
Recibos  == [derecho : Derechos, eleccion : Opciones]
Entradas == [derecho : Derechos, ya_voto : BOOLEAN]

Rutas == {"mis-votaciones", "votacion", "comprobante"}
Respuestas ==
  [estado : {"ok", "creado", "repetido", "VOTACION_CERRADA", "error"},
   cuerpo : (SUBSET Entradas) \cup BOOLEAN \cup Recibos \cup {Nulo}]
Llamadas ==
  [tipo : Rutas \cup {"emitir"}, derecho : Derechos \cup {Nulo}, eleccion : Opciones, clave : Claves,
   fase : {"ida", "vuelta", "huerfana"}, respuesta : Respuestas \cup {Nulo}]
Paginas ==
  [ruta : Rutas, derecho : Derechos \cup {Nulo},
   fase : {"cargando", "exito", "papeleta", "enviando", "ya-votaste", "cerrada", "error", "sin-conexion", "no-disponible"},
   yaVoto : BOOLEAN, paso : {1, 2, 3}, seleccion : Opciones, consentido : BOOLEAN,
   comprobante : Recibos \cup {Nulo}, derechos : SUBSET Entradas, clave : Claves]

TipoBoleta ==
  /\ urna \in [Derechos -> Votos \cup {Nulo}] /\ cerrado \in BOOLEAN
  /\ pantalla \in Paginas /\ llamadas \subseteq Llamadas
  /\ montajes \in Nat /\ privado \in BOOLEAN

\* A comprobante, a list and a refusal that tell the truth.
ReciboVeraz(r) == r \in Recibos /\ r.derecho \in Votante!Votados /\ r.eleccion = urna[r.derecho].eleccion
ListaVeraz(xs) == xs \subseteq Entradas /\ \A x \in xs : x.ya_voto => x.derecho \in Votante!Votados
RechazoVeraz(k) == cerrado /\ Votante!PorClave(k) = {}

\* The answers on their way, by the call they answer.
Cierta(c) ==
  /\ c.respuesta \in Respuestas
  /\ c.tipo = "mis-votaciones" => ListaVeraz(c.respuesta.cuerpo)
  /\ c.tipo = "votacion" => c.respuesta.cuerpo \in BOOLEAN /\ (c.respuesta.cuerpo => c.derecho \in Votante!Votados)
  /\ c.tipo = "comprobante" => ReciboVeraz(c.respuesta.cuerpo)
  /\ c.tipo = "emitir" =>
       /\ c.respuesta.estado \in {"creado", "repetido"} => ReciboVeraz(c.respuesta.cuerpo)
       /\ c.respuesta.estado = "VOTACION_CERRADA" => RechazoVeraz(c.clave)

\* A reading is of the page on the screen; a vote goes on without it.
Propia(c) ==
  /\ c.tipo # "emitir" => c.fase # "huerfana" /\ c.tipo = pantalla.ruta /\ c.derecho = pantalla.derecho
  /\ c.tipo = "emitir" => c.derecho \in Derechos /\ (c.fase # "huerfana" => pantalla.ruta = "votacion")

LlamadasCiertas == \A c \in llamadas : Propia(c) /\ (c.fase = "vuelta" => Cierta(c))

PaginaCierta ==
  /\ pantalla.ruta = "votacion" => pantalla.derecho \in Derechos
  /\ pantalla.ruta = "comprobante" => pantalla.derecho \in Votante!Votados
  /\ ListaVeraz(pantalla.derechos)
  /\ pantalla.ruta \in {"votacion", "comprobante"} /\ pantalla.fase \in {"exito", "ya-votaste"} => ReciboVeraz(pantalla.comprobante)
  /\ pantalla.fase = "cerrada" => RechazoVeraz(pantalla.clave)
  /\ pantalla.fase = "papeleta" /\ pantalla.yaVoto =>
       pantalla.derecho \in Votante!Votados \/ \E c \in llamadas : c.tipo = "votacion"

InvBoleta == TipoBoleta /\ LlamadasCiertas /\ PaginaCierta
-----------------------------------------------------------------------------
(* The ballot box only grows, and not at all once the window is closed *)

Sigue ==
  /\ urna' \in [Derechos -> Votos \cup {Nulo}] /\ cerrado' \in BOOLEAN
  /\ \A d \in Derechos : urna[d] # Nulo => urna'[d] = urna[d]
  /\ cerrado => cerrado' /\ urna' = urna

\* What the server once answered stays true.
LEMMA Perduran ==
  ASSUME TipoBoleta, Sigue
  PROVE  /\ \A d \in Votante!Votados : d \in Votante!Votados'
         /\ \A r : ReciboVeraz(r) => ReciboVeraz(r)'
         /\ \A xs : ListaVeraz(xs) => ListaVeraz(xs)'
         /\ \A k : RechazoVeraz(k) => RechazoVeraz(k)'
         /\ \A c : Cierta(c) => Cierta(c)'
<1>1. \A d \in Votante!Votados : d \in Votante!Votados' /\ urna'[d] = urna[d]
  BY DEF Sigue, Votante!Votados
<1>2. \A r : ReciboVeraz(r) => ReciboVeraz(r)'
  BY <1>1 DEF ReciboVeraz
<1>3. \A xs : ListaVeraz(xs) => ListaVeraz(xs)'
  BY <1>1 DEF ListaVeraz
<1>4. \A k : RechazoVeraz(k) => RechazoVeraz(k)'
  BY DEF RechazoVeraz, Sigue, Votante!PorClave, Votante!Votados
<1>5. ASSUME NEW c, Cierta(c) PROVE Cierta(c)'
  <2>1. c.tipo = "mis-votaciones" => ListaVeraz(c.respuesta.cuerpo)'
    BY <1>3, <1>5 DEF Cierta
  <2>2. c.tipo = "votacion" => c.respuesta.cuerpo \in BOOLEAN /\ (c.respuesta.cuerpo => c.derecho \in Votante!Votados')
    BY <1>1, <1>5 DEF Cierta
  <2>3. c.tipo = "comprobante" => ReciboVeraz(c.respuesta.cuerpo)'
    BY <1>2, <1>5 DEF Cierta
  <2>4. c.tipo = "emitir" =>
          /\ c.respuesta.estado \in {"creado", "repetido"} => ReciboVeraz(c.respuesta.cuerpo)'
          /\ c.respuesta.estado = "VOTACION_CERRADA" => RechazoVeraz(c.clave)'
    BY <1>2, <1>4, <1>5 DEF Cierta
  <2> QED BY <1>5, <2>1, <2>2, <2>3, <2>4 DEF Cierta
<1> QED BY <1>1, <1>2, <1>3, <1>4, <1>5

\* A registered vote is a record.
LEMMA VotoNoNulo ==
  ASSUME NEW e \in Opciones, NEW k \in Claves
  PROVE  [eleccion |-> e, clave |-> k] \in Votos /\ [eleccion |-> e, clave |-> k] # Nulo
BY ConstantesPantallas DEF Votos, Opciones, Claves

\* VotosService.emitir() writes the vote of a right that has none, before the end of the window.
LEMMA EmitirSigue ==
  ASSUME TipoBoleta, NEW c \in Llamadas, c.derecho \in Derechos, NEW falla \in BOOLEAN, UNCHANGED cerrado,
         Votante!AtenderEmitir(c, falla)
  PROVE  Sigue
<1> DEFINE v == [eleccion |-> c.eleccion, clave |-> c.clave]
<1>1. v \in Votos /\ v # Nulo
  BY VotoNoNulo DEF Llamadas
<1>2. CASE Votante!Resultado(c) = "creado"
  <2>1. urna' = [urna EXCEPT ![c.derecho] = v] /\ ~cerrado /\ urna[c.derecho] = Nulo
    BY <1>2 DEF Votante!AtenderEmitir, Votante!Resultado, TipoBoleta
  <2> QED BY <1>1, <2>1 DEF Sigue, TipoBoleta
<1>3. CASE Votante!Resultado(c) # "creado"
  <2>1. urna' = urna
    BY <1>3 DEF Votante!AtenderEmitir
  <2> QED BY <2>1 DEF Sigue, TipoBoleta
<1> QED BY <1>2, <1>3

\* Every other step of the pages leaves the ballot box as it is, but the vote of another device.
LEMMA BoletaSigue ==
  ASSUME InvBoleta, Votante!NextBoleta
  PROVE  Sigue
<1> USE DEF InvBoleta
<1>1. ASSUME UNCHANGED <<urna, cerrado>> PROVE Sigue
  BY <1>1 DEF Sigue, TipoBoleta
<1>2. CASE Votante!VencerPlazo
  BY <1>2 DEF Votante!VencerPlazo, Sigue, TipoBoleta
<1>3. ASSUME NEW d \in Derechos, NEW e \in Elecciones, Votante!OtroDispositivo(d, e) PROVE Sigue
  <2> DEFINE v == [eleccion |-> e, clave |-> Nulo]
  <2>1. v \in Votos
    BY VotoNoNulo DEF Opciones, Claves
  <2>2. urna' = [urna EXCEPT ![d] = v] /\ ~cerrado /\ urna[d] = Nulo /\ cerrado' = cerrado
    BY <1>3 DEF Votante!OtroDispositivo
  <2> QED BY <2>1, <2>2 DEF Sigue, TipoBoleta
<1>4. ASSUME NEW c \in llamadas, Votante!Atender(c) PROVE Sigue
  <2>1. cerrado' = cerrado /\ c \in Llamadas
    BY <1>4 DEF Votante!Atender, TipoBoleta
  <2>2. CASE c.tipo = "emitir"
    <3>1. c.derecho \in Derechos
      BY <2>2 DEF LlamadasCiertas, Propia
    <3>2. PICK falla \in BOOLEAN : Votante!AtenderEmitir(c, falla)
      BY <1>4, <2>2 DEF Votante!Atender
    <3> QED BY <2>1, <3>1, <3>2, EmitirSigue
  <2>3. CASE c.tipo # "emitir"
    BY <1>1, <1>4, <2>1, <2>3 DEF Votante!Atender, Votante!AtenderLectura
  <2> QED BY <2>2, <2>3
<1>5. CASE \/ Votante!VerVotaciones \/ Votante!Recargar
           \/ \E d \in Derechos : Votante!Votar(d) \/ Votante!AbrirComprobante(d)
  BY <1>1, <1>5 DEF Votante!VerVotaciones, Votante!Recargar, Votante!Votar, Votante!AbrirComprobante, Votante!Montar
<1>6. CASE \E d \in Derechos : Votante!Saltar(d)
  BY <1>1, <1>6 DEF Votante!Saltar
<1>7. CASE \/ Votante!Comenzar \/ Votante!Siguiente \/ Votante!Volver \/ Votante!Consentir
           \/ \E e \in Elecciones : Votante!Seleccionar(e)
  BY <1>1, <1>7 DEF Votante!Comenzar, Votante!Siguiente, Votante!Volver, Votante!Consentir, Votante!Seleccionar,
    Votante!IrAPaso, Votante!SoloPantalla
<1>8. CASE Votante!Confirmar \/ Votante!Reintentar
  BY <1>1, <1>8 DEF Votante!Confirmar, Votante!Reintentar, Votante!Emitir
<1>9. CASE \E c \in llamadas : Votante!Entregar(c) \/ Votante!Cortar(c)
  BY <1>1, <1>9 DEF Votante!Entregar, Votante!Cortar
<1> QED BY <1>2, <1>3, <1>4, <1>5, <1>6, <1>7, <1>8, <1>9 DEF Votante!NextBoleta
-----------------------------------------------------------------------------
(* The steps of the page and of the server *)

\* A step that leaves the calls alone, and of the page what it says of the vote.
LEMMA QuietaBoleta ==
  ASSUME InvBoleta, Sigue, UNCHANGED <<llamadas, montajes, privado>>, pantalla' \in Paginas,
         pantalla'.ruta = pantalla.ruta, pantalla'.derecho = pantalla.derecho, pantalla'.derechos = pantalla.derechos,
         pantalla'.comprobante = pantalla.comprobante, pantalla'.clave = pantalla.clave,
         pantalla'.fase = pantalla.fase, pantalla'.yaVoto = pantalla.yaVoto
  PROVE  InvBoleta'
<1> USE DEF InvBoleta
<1>1. /\ \A d \in Votante!Votados : d \in Votante!Votados'
      /\ \A r : ReciboVeraz(r) => ReciboVeraz(r)'
      /\ \A xs : ListaVeraz(xs) => ListaVeraz(xs)'
      /\ \A k : RechazoVeraz(k) => RechazoVeraz(k)'
      /\ \A c : Cierta(c) => Cierta(c)'
  BY Perduran
<1>2. TipoBoleta'
  BY DEF TipoBoleta, Sigue
<1>3. LlamadasCiertas'
  <2> SUFFICES ASSUME NEW c \in llamadas PROVE Propia(c)' /\ (c.fase = "vuelta" => Cierta(c)')
    BY DEF LlamadasCiertas
  <2>1. Propia(c) /\ (c.fase = "vuelta" => Cierta(c))
    BY DEF LlamadasCiertas
  <2>2. Propia(c)'
    BY <2>1 DEF Propia
  <2> QED BY <1>1, <2>1, <2>2
<1>4. PaginaCierta'
  <2>1. ListaVeraz(pantalla.derechos)'
    BY <1>1 DEF PaginaCierta
  <2>2. pantalla'.ruta \in {"votacion", "comprobante"} /\ pantalla'.fase \in {"exito", "ya-votaste"} =>
          ReciboVeraz(pantalla.comprobante)'
    BY <1>1 DEF PaginaCierta
  <2>3. pantalla'.fase = "cerrada" => RechazoVeraz(pantalla.clave)'
    BY <1>1 DEF PaginaCierta
  <2> QED BY <1>1, <2>1, <2>2, <2>3 DEF PaginaCierta
<1> QED BY <1>2, <1>3, <1>4

\* The steps of the ballot.
LEMMA PasosBoleta ==
  ASSUME InvBoleta, Sigue,
         \/ Votante!Comenzar \/ Votante!Siguiente \/ Votante!Volver \/ Votante!Consentir
         \/ \E e \in Elecciones : Votante!Seleccionar(e)
  PROVE  InvBoleta'
<1>1. pantalla \in Paginas
  BY DEF InvBoleta, TipoBoleta
<1>2. ASSUME NEW n \in {1, 2, 3}, Votante!IrAPaso(n) PROVE InvBoleta'
  <2>1. pantalla' = [pantalla EXCEPT !.paso = n, !.consentido = FALSE] /\ UNCHANGED <<llamadas, montajes, privado>>
    BY <1>2 DEF Votante!IrAPaso, Votante!SoloPantalla
  <2>2. pantalla' \in Paginas
    BY <1>1, <2>1 DEF Paginas
  <2> QED BY <1>1, <2>1, <2>2, QuietaBoleta DEF Paginas
<1>3. CASE Votante!Comenzar \/ Votante!Siguiente \/ Votante!Volver
  BY <1>2, <1>3 DEF Votante!Comenzar, Votante!Siguiente, Votante!Volver
<1>4. CASE Votante!Consentir
  <2>1. pantalla' = [pantalla EXCEPT !.consentido = ~pantalla.consentido] /\ UNCHANGED <<llamadas, montajes, privado>>
    BY <1>4 DEF Votante!Consentir, Votante!SoloPantalla
  <2>2. pantalla' \in Paginas
    BY <1>1, <2>1 DEF Paginas
  <2> QED BY <1>1, <2>1, <2>2, QuietaBoleta DEF Paginas
<1>5. ASSUME NEW e \in Elecciones, Votante!Seleccionar(e) PROVE InvBoleta'
  <2>1. pantalla' = [pantalla EXCEPT !.seleccion = e] /\ UNCHANGED <<llamadas, montajes, privado>>
    BY <1>5 DEF Votante!Seleccionar, Votante!SoloPantalla
  <2>2. pantalla' \in Paginas
    BY <1>1, <2>1 DEF Paginas, Opciones
  <2> QED BY <1>1, <2>1, <2>2, QuietaBoleta DEF Paginas
<1> QED BY <1>3, <1>4, <1>5

\* A new page asks for its own data, and knows nothing yet.
LEMMA PaginaNueva ==
  ASSUME NEW ruta \in Rutas, NEW d \in Derechos \cup {Nulo}
  PROVE  /\ Votante!Pagina(ruta, d) \in Paginas
         /\ Votante!Get(ruta, d) \in Llamadas
         /\ Votante!Get(ruta, d).tipo = ruta /\ Votante!Get(ruta, d).derecho = d /\ Votante!Get(ruta, d).fase = "ida"
BY DEF Votante!Pagina, Votante!Get, Paginas, Llamadas, Opciones, Claves, Rutas

\* A page that is mounted: the votes on their way are left behind.
LEMMA MontarBoleta ==
  ASSUME InvBoleta, Sigue, NEW ruta \in Rutas, NEW d \in Derechos \cup {Nulo}, Votante!Montar(ruta, d),
         ruta = "votacion" => d \in Derechos, ruta = "comprobante" => d \in Votante!Votados
  PROVE  InvBoleta'
<1> DEFINE g == Votante!Get(ruta, d)
           p == Votante!Pagina(ruta, d)
<1> USE DEF InvBoleta
<1>1. /\ p \in Paginas /\ g \in Llamadas
      /\ g.tipo = ruta /\ g.derecho = d /\ g.fase = "ida"
  BY PaginaNueva
<1>2. pantalla' = p /\ llamadas' = Votante!Abandonadas \cup {g} /\ montajes' \in Nat /\ privado' = privado
  BY DEF Votante!Montar, TipoBoleta
<1>3. ASSUME NEW c \in Votante!Abandonadas
      PROVE  c \in Llamadas /\ c.tipo = "emitir" /\ c.fase = "huerfana" /\ c.derecho \in Derechos
  <2>1. PICK x \in llamadas : x.tipo = "emitir" /\ c = [x EXCEPT !.fase = "huerfana"]
    BY DEF Votante!Abandonadas
  <2>2. x \in Llamadas /\ x.derecho \in Derechos
    BY <2>1 DEF TipoBoleta, LlamadasCiertas, Propia
  <2> QED BY <2>1, <2>2 DEF Llamadas
<1>4. /\ p.ruta = ruta /\ p.derecho = d /\ p.derechos = {} /\ p.fase = "cargando"
  BY DEF Votante!Pagina
<1> HIDE DEF g, p
<1>5. TipoBoleta'
  BY <1>1, <1>2, <1>3 DEF TipoBoleta, Sigue
<1>6. LlamadasCiertas'
  <2>1. ASSUME NEW c \in llamadas' PROVE Propia(c)' /\ c.fase # "vuelta"
    BY <1>1, <1>2, <1>3, <1>4, <2>1 DEF Propia, Rutas
  <2> QED BY <2>1 DEF LlamadasCiertas
<1>7. PaginaCierta'
  <2>1. \A x \in Votante!Votados : x \in Votante!Votados'
    BY Perduran
  <2> QED BY <1>2, <1>4, <2>1 DEF PaginaCierta, ListaVeraz
<1> QED BY <1>5, <1>6, <1>7

\* The links and the reload.
LEMMA NavegarBoleta ==
  ASSUME InvBoleta, Sigue,
         \/ Votante!VerVotaciones \/ Votante!Recargar
         \/ \E d \in Derechos : Votante!Votar(d) \/ Votante!AbrirComprobante(d)
  PROVE  InvBoleta'
<1>1. CASE Votante!VerVotaciones
  BY <1>1, MontarBoleta DEF Votante!VerVotaciones, Rutas
<1>2. CASE Votante!Recargar
  <2>1. pantalla.ruta \in Rutas /\ pantalla.derecho \in Derechos \cup {Nulo}
    BY DEF InvBoleta, TipoBoleta, Paginas
  <2> QED BY <1>2, <2>1, MontarBoleta DEF Votante!Recargar, InvBoleta, PaginaCierta
<1>3. ASSUME NEW d \in Derechos, Votante!Votar(d) PROVE InvBoleta'
  BY <1>3, MontarBoleta DEF Votante!Votar, Rutas
<1>4. ASSUME NEW d \in Derechos, Votante!AbrirComprobante(d) PROVE InvBoleta'
  BY <1>4, MontarBoleta DEF Votante!AbrirComprobante, Votante!Votados, Rutas
<1> QED BY <1>1, <1>2, <1>3, <1>4

\* A jump between two ballots: the papeleta of the new right is asked for.
LEMMA SaltarBoleta ==
  ASSUME InvBoleta, Sigue, NEW d \in Derechos, Votante!Saltar(d)
  PROVE  InvBoleta'
<1> DEFINE g == Votante!Get("votacion", d)
           E == {c \in llamadas : c.tipo = "emitir"}
<1> USE DEF InvBoleta
<1>1. g \in Llamadas /\ g.tipo = "votacion" /\ g.derecho = d /\ g.fase = "ida"
  BY PaginaNueva DEF Rutas
<1>2. /\ pantalla' = [pantalla EXCEPT !.derecho = d] /\ pantalla.ruta = "votacion"
      /\ llamadas' = E \cup {g} /\ UNCHANGED <<montajes, privado>>
  BY DEF Votante!Saltar
<1>3. /\ pantalla' \in Paginas /\ pantalla'.derecho = d /\ pantalla'.ruta = "votacion"
      /\ pantalla'.derechos = pantalla.derechos /\ pantalla'.comprobante = pantalla.comprobante
      /\ pantalla'.clave = pantalla.clave /\ pantalla'.fase = pantalla.fase
  BY <1>2 DEF TipoBoleta, Paginas
<1> HIDE DEF g
<1>4. /\ \A r : ReciboVeraz(r) => ReciboVeraz(r)'
      /\ \A xs : ListaVeraz(xs) => ListaVeraz(xs)'
      /\ \A k : RechazoVeraz(k) => RechazoVeraz(k)'
      /\ \A c : Cierta(c) => Cierta(c)'
  BY Perduran
<1>5. TipoBoleta'
  BY <1>1, <1>2, <1>3 DEF TipoBoleta, Sigue
<1>6. LlamadasCiertas'
  <2> SUFFICES ASSUME NEW c \in llamadas' PROVE Propia(c)' /\ (c.fase = "vuelta" => Cierta(c)')
    BY DEF LlamadasCiertas
  <2>1. CASE c = g
    BY <1>1, <1>3, <2>1 DEF Propia
  <2>2. CASE c \in E
    <3>1. Propia(c) /\ (c.fase = "vuelta" => Cierta(c)) /\ c.tipo = "emitir"
      BY <2>2 DEF LlamadasCiertas
    <3>2. Propia(c)'
      BY <1>3, <3>1 DEF Propia
    <3> QED BY <1>4, <3>1, <3>2
  <2> QED BY <1>2, <2>1, <2>2
<1>7. PaginaCierta'
  <2>1. ListaVeraz(pantalla.derechos)'
    BY <1>3, <1>4 DEF PaginaCierta
  <2>2. pantalla'.fase \in {"exito", "ya-votaste"} => ReciboVeraz(pantalla.comprobante)'
    BY <1>2, <1>3, <1>4 DEF PaginaCierta
  <2>3. pantalla'.fase = "cerrada" => RechazoVeraz(pantalla.clave)'
    BY <1>3, <1>4 DEF PaginaCierta
  <2> QED BY <1>1, <1>2, <1>3, <2>1, <2>2, <2>3 DEF PaginaCierta
<1> QED BY <1>5, <1>6, <1>7

\* confirmar(): the vote is sent from a ballot, with the key of the right or of the page.
LEMMA EnviarBoleta ==
  ASSUME InvBoleta, Sigue, pantalla.ruta = "votacion", Votante!Emitir
  PROVE  InvBoleta'
<1> DEFINE g == Votante!Post(pantalla.derecho, pantalla.seleccion, Votante!Clave)
<1> USE DEF InvBoleta
<1>1. /\ pantalla.derecho \in Derechos /\ pantalla.seleccion \in Opciones /\ Votante!Clave \in Claves
  BY DEF TipoBoleta, Paginas, PaginaCierta, Votante!Clave, Claves
<1>2. g \in Llamadas /\ g.tipo = "emitir" /\ g.derecho = pantalla.derecho /\ g.fase = "ida"
  BY <1>1 DEF Votante!Post, Votante!Get, Llamadas, Opciones, Claves
<1>3. /\ pantalla' = [pantalla EXCEPT !.fase = "enviando", !.paso = 3, !.consentido = TRUE]
      /\ llamadas' = llamadas \cup {g} /\ UNCHANGED <<montajes, privado>>
  BY DEF Votante!Emitir
<1>4. /\ pantalla' \in Paginas /\ pantalla'.derecho = pantalla.derecho /\ pantalla'.ruta = "votacion"
      /\ pantalla'.derechos = pantalla.derechos /\ pantalla'.fase = "enviando"
  BY <1>3 DEF TipoBoleta, Paginas
<1> HIDE DEF g
<1>5. /\ \A xs : ListaVeraz(xs) => ListaVeraz(xs)'
      /\ \A c : Cierta(c) => Cierta(c)'
  BY Perduran
<1>6. TipoBoleta'
  BY <1>2, <1>3, <1>4 DEF TipoBoleta, Sigue
<1>7. LlamadasCiertas'
  <2> SUFFICES ASSUME NEW c \in llamadas' PROVE Propia(c)' /\ (c.fase = "vuelta" => Cierta(c)')
    BY DEF LlamadasCiertas
  <2>1. CASE c = g
    BY <1>1, <1>2, <1>4, <2>1 DEF Propia
  <2>2. CASE c \in llamadas
    <3>1. Propia(c) /\ (c.fase = "vuelta" => Cierta(c))
      BY <2>2 DEF LlamadasCiertas
    <3>2. Propia(c)'
      BY <1>4, <3>1 DEF Propia
    <3> QED BY <1>5, <3>1, <3>2
  <2> QED BY <1>3, <2>1, <2>2
<1>8. PaginaCierta'
  <2>1. ListaVeraz(pantalla.derechos)'
    BY <1>4, <1>5 DEF PaginaCierta
  <2> QED BY <1>1, <1>4, <2>1 DEF PaginaCierta
<1> QED BY <1>6, <1>7, <1>8

\* The server takes a call c and leaves at most its answer n.
LEMMA ContestarBoleta ==
  ASSUME InvBoleta, Sigue, NEW c \in llamadas, UNCHANGED <<pantalla, montajes, privado>>,
         NEW n \in Llamadas, n.tipo = c.tipo, n.derecho = c.derecho, n.fase = "vuelta", c.fase # "huerfana" => Cierta(n)',
         \/ llamadas' = (llamadas \ {c}) \cup {n} /\ c.fase # "huerfana"
         \/ llamadas' = llamadas \ {c} /\ c.fase = "huerfana"
  PROVE  InvBoleta'
<1> USE DEF InvBoleta
<1>1. /\ \A d \in Votante!Votados : d \in Votante!Votados'
      /\ \A r : ReciboVeraz(r) => ReciboVeraz(r)'
      /\ \A xs : ListaVeraz(xs) => ListaVeraz(xs)'
      /\ \A k : RechazoVeraz(k) => RechazoVeraz(k)'
      /\ \A x : Cierta(x) => Cierta(x)'
  BY Perduran
<1>2. pantalla' = pantalla /\ pantalla \in Paginas
  BY DEF TipoBoleta
<1>3. TipoBoleta'
  BY DEF TipoBoleta, Sigue
<1>4. ASSUME NEW x \in llamadas PROVE Propia(x) /\ Propia(x)' /\ (x.fase = "vuelta" => Cierta(x)')
  <2>1. Propia(x) /\ (x.fase = "vuelta" => Cierta(x))
    BY DEF LlamadasCiertas
  <2>2. Propia(x)'
    BY <1>2, <2>1 DEF Propia
  <2> QED BY <1>1, <2>1, <2>2
<1>5. Propia(n)' \/ c.fase = "huerfana"
  BY <1>2, <1>4 DEF Propia
<1>6. LlamadasCiertas'
  BY <1>4, <1>5 DEF LlamadasCiertas
<1>7. PaginaCierta'
  <2>1. ListaVeraz(pantalla.derechos)'
    BY <1>1, <1>2 DEF PaginaCierta
  <2>2. pantalla.ruta \in {"votacion", "comprobante"} /\ pantalla.fase \in {"exito", "ya-votaste"} =>
          ReciboVeraz(pantalla.comprobante)'
    BY <1>1, <1>2 DEF PaginaCierta
  <2>3. pantalla.fase = "cerrada" => RechazoVeraz(pantalla.clave)'
    BY <1>1, <1>2 DEF PaginaCierta
  <2>4. ASSUME NEW x \in llamadas, x.tipo = "votacion" PROVE \E y \in llamadas' : y.tipo = "votacion"
    <3>1. CASE x # c
      BY <2>4, <3>1
    <3>2. CASE x = c
      BY <1>4, <2>4, <3>2 DEF Propia
    <3> QED BY <3>1, <3>2
  <2> QED BY <1>1, <1>2, <2>1, <2>2, <2>3, <2>4 DEF PaginaCierta
<1> QED BY <1>3, <1>6, <1>7

\* The list of MisDerechosService.listar() is what is registered.
LEMMA MiosVeraz == Votante!Mios \in SUBSET Entradas /\ ListaVeraz(Votante!Mios)
<1>1. ASSUME NEW x \in Votante!Mios PROVE x \in Entradas /\ (x.ya_voto => x.derecho \in Votante!Votados)
  <2>1. PICK d \in Derechos : x = [derecho |-> d, ya_voto |-> d \in Votante!Votados]
    BY DEF Votante!Mios
  <2>2. PICK b \in BOOLEAN : b <=> d \in Votante!Votados
    OBVIOUS
  <2>3. x = [derecho |-> d, ya_voto |-> b]
    BY <2>1, <2>2
  <2> QED BY <2>2, <2>3 DEF Entradas
<1> QED BY <1>1 DEF ListaVeraz

\* A reading is answered with what is registered.
LEMMA LeerBoleta ==
  ASSUME InvBoleta, Sigue, NEW c \in llamadas, c.tipo # "emitir", Votante!Atender(c)
  PROVE  InvBoleta'
<1>1. /\ c \in Llamadas /\ c.fase # "huerfana" /\ c.tipo \in Rutas /\ c.tipo = pantalla.ruta /\ c.derecho = pantalla.derecho
  BY DEF InvBoleta, TipoBoleta, Llamadas, LlamadasCiertas, Propia
<1>2. /\ llamadas' = (llamadas \ {c}) \cup 
                        {[c EXCEPT !.fase = "vuelta", !.respuesta = [estado |-> "ok", cuerpo |-> Votante!Leida(c)]]}
      /\ UNCHANGED <<urna, cerrado, pantalla, montajes, privado>>
  BY DEF Votante!Atender, Votante!AtenderLectura
<1>3. Votante!Votados' = Votante!Votados
  BY <1>2 DEF Votante!Votados
<1>4. ASSUME NEW x \in (SUBSET Entradas) \cup BOOLEAN \cup Recibos \cup {Nulo}, Votante!Leida(c) = x,
             c.tipo = "mis-votaciones" => ListaVeraz(x)',
             c.tipo = "votacion" => x \in BOOLEAN /\ (x => c.derecho \in Votante!Votados'),
             c.tipo = "comprobante" => ReciboVeraz(x)'
      PROVE  InvBoleta'
  <2> DEFINE r == [estado |-> "ok", cuerpo |-> x]
             n == [c EXCEPT !.fase = "vuelta", !.respuesta = r]
  <2>1. r \in Respuestas /\ r.cuerpo = x
    BY DEF Respuestas
  <2>2. n \in Llamadas /\ n.tipo = c.tipo /\ n.derecho = c.derecho /\ n.fase = "vuelta" /\ n.respuesta = r
    BY <1>1, <2>1 DEF Llamadas
  <2>3. llamadas' = (llamadas \ {c}) \cup {n}
    BY <1>2, <1>4
  <2> HIDE DEF r, n
  <2>4. Cierta(n)'
    BY <1>1, <1>4, <2>1, <2>2 DEF Cierta, Rutas
  <2> QED BY <1>1, <1>2, <2>2, <2>3, <2>4, ContestarBoleta
<1>5. CASE c.tipo = "mis-votaciones"
  <2>1. PICK x : x = Votante!Mios
    OBVIOUS
  <2>2. Votante!Leida(c) = x
    BY <1>5, <2>1 DEF Votante!Leida
  <2>3. x \in SUBSET Entradas /\ ListaVeraz(x)
    BY <2>1, MiosVeraz
  <2>4. ListaVeraz(x)'
    BY <1>3, <2>3 DEF ListaVeraz
  <2> QED BY <1>4, <1>5, <2>2, <2>3, <2>4
<1>6. CASE c.tipo = "votacion"
  <2>1. PICK x \in BOOLEAN : x <=> c.derecho \in Votante!Votados
    OBVIOUS
  <2>2. Votante!Leida(c) = x
    BY <1>6, <2>1 DEF Votante!Leida
  <2>3. x \in (SUBSET Entradas) \cup BOOLEAN \cup Recibos \cup {Nulo}
    BY <2>1
  <2>4. c.tipo # "mis-votaciones" /\ c.tipo # "comprobante"
    BY <1>6
  <2>5. x => c.derecho \in Votante!Votados'
    BY <1>3, <2>1
  <2> QED BY <1>4, <2>1, <2>2, <2>3, <2>4, <2>5
<1>7. CASE c.tipo = "comprobante"
  <2>1. PICK x : x = Votante!Comprobante(c.derecho, urna[c.derecho])
    OBVIOUS
  <2>2. Votante!Leida(c) = x
    BY <1>7, <2>1 DEF Votante!Leida
  <2>3. c.derecho \in Votante!Votados /\ urna[c.derecho] \in Votos
    BY <1>1, <1>7 DEF InvBoleta, PaginaCierta, TipoBoleta, Votante!Votados
  <2>4. x \in Recibos /\ x.derecho = c.derecho /\ x.eleccion = urna[c.derecho].eleccion
    BY <2>1, <2>3 DEF Votante!Comprobante, Recibos, Votos, Votante!Votados
  <2>5. ReciboVeraz(x)'
    BY <1>2, <1>3, <2>3, <2>4 DEF ReciboVeraz
  <2>6. x \in (SUBSET Entradas) \cup BOOLEAN \cup Recibos \cup {Nulo}
    BY <2>4
  <2>7. c.tipo # "mis-votaciones" /\ c.tipo # "votacion"
    BY <1>7
  <2> QED BY <1>4, <2>2, <2>5, <2>6, <2>7
<1> QED BY <1>1, <1>5, <1>6, <1>7 DEF Rutas

\* A vote is answered with the comprobante of what is registered, or refused when nothing is.
LEMMA RegistrarBoleta ==
  ASSUME InvBoleta, Sigue, NEW c \in llamadas, c.tipo = "emitir", Votante!Atender(c)
  PROVE  InvBoleta'
<1>1. PICK falla \in BOOLEAN : Votante!AtenderEmitir(c, falla)
  BY DEF Votante!Atender
<1>2. UNCHANGED <<cerrado, pantalla, montajes, privado>>
  BY DEF Votante!Atender
<1>3. c \in Llamadas /\ c.derecho \in Derechos
  BY DEF InvBoleta, TipoBoleta, LlamadasCiertas, Propia
<1>4. PICK r : r = Votante!Resultado(c)
  OBVIOUS
<1>5. r \in {"creado", "repetido", "VOTACION_CERRADA"}
  BY <1>4 DEF Votante!Resultado
<1>6. PICK est : est = IF r # "VOTACION_CERRADA" /\ (falla \/ urna'[c.derecho] = Nulo) THEN "error" ELSE r
  OBVIOUS
<1>7. PICK cu : cu = IF urna'[c.derecho] = Nulo THEN Nulo ELSE Votante!Comprobante(c.derecho, urna'[c.derecho])
  OBVIOUS
<1> DEFINE m == [estado |-> est, cuerpo |-> cu]
           n == [c EXCEPT !.fase = "vuelta", !.respuesta = m]
<1>8. llamadas' = (llamadas \ {c}) \cup (IF c.fase = "huerfana" THEN {} ELSE {n})
  BY <1>1, <1>4, <1>6, <1>7 DEF Votante!AtenderEmitir
<1>9. urna'[c.derecho] \in Votos \cup {Nulo}
  BY <1>3 DEF Sigue
<1>10. urna'[c.derecho] # Nulo => cu \in Recibos /\ cu.derecho = c.derecho /\ cu.eleccion = urna'[c.derecho].eleccion
  BY <1>3, <1>7, <1>9 DEF Votante!Comprobante, Recibos, Votos
<1>11. m \in Respuestas /\ m.estado = est /\ m.cuerpo = cu
  <2>1. est \in {"ok", "creado", "repetido", "VOTACION_CERRADA", "error"}
    BY <1>5, <1>6
  <2>2. cu \in Recibos \cup {Nulo}
    BY <1>7, <1>10
  <2> QED BY <2>1, <2>2 DEF Respuestas
<1>12. n \in Llamadas /\ n.tipo = c.tipo /\ n.derecho = c.derecho /\ n.clave = c.clave /\ n.fase = "vuelta" /\ n.respuesta = m
  BY <1>3, <1>11 DEF Llamadas
<1>13. est \in {"creado", "repetido"} => ReciboVeraz(cu)'
  <2> HAVE est \in {"creado", "repetido"}
  <2>1. urna'[c.derecho] # Nulo
    BY <1>6
  <2>2. c.derecho \in Votante!Votados'
    BY <1>3, <2>1 DEF Votante!Votados
  <2> QED BY <1>10, <2>1, <2>2 DEF ReciboVeraz
<1>14. est = "VOTACION_CERRADA" => RechazoVeraz(c.clave)'
  <2> HAVE est = "VOTACION_CERRADA"
  <2>1. r = "VOTACION_CERRADA"
    BY <1>5, <1>6
  <2>2. RechazoVeraz(c.clave)
    BY <1>4, <2>1 DEF Votante!Resultado, RechazoVeraz
  <2> QED BY <2>2, Perduran DEF InvBoleta
<1> HIDE DEF m, n
<1>15. Cierta(n)'
  BY <1>11, <1>12, <1>13, <1>14 DEF Cierta
<1> QED BY <1>2, <1>8, <1>12, <1>15, ContestarBoleta

\* A step that ends the wait for a call c, of which an orphan may be left.
LEMMA TerminarBoleta ==
  ASSUME InvBoleta, Sigue, NEW c \in llamadas, UNCHANGED <<montajes, privado>>,
         pantalla' \in Paginas, pantalla'.ruta = pantalla.ruta, pantalla'.derecho = pantalla.derecho, PaginaCierta',
         \/ llamadas' = llamadas \ {c}
         \/ llamadas' = (llamadas \ {c}) \cup {[c EXCEPT !.fase = "huerfana"]} /\ c.tipo = "emitir"
  PROVE  InvBoleta'
<1> DEFINE n == [c EXCEPT !.fase = "huerfana"]
<1> USE DEF InvBoleta
<1>1. n \in Llamadas /\ n.tipo = c.tipo /\ n.derecho = c.derecho /\ n.fase = "huerfana"
  BY DEF TipoBoleta, Llamadas
<1> HIDE DEF n
<1>2. \A x : Cierta(x) => Cierta(x)'
  BY Perduran
<1>3. llamadas' \subseteq (llamadas \cup {n}) /\ (n \in llamadas' => n \in llamadas \/ c.tipo = "emitir")
  BY DEF n
<1>4. TipoBoleta'
  BY <1>1, <1>3 DEF TipoBoleta, Sigue
<1>5. LlamadasCiertas'
  <2> SUFFICES ASSUME NEW x \in llamadas' PROVE Propia(x)' /\ (x.fase = "vuelta" => Cierta(x)')
    BY DEF LlamadasCiertas
  <2>1. CASE x \in llamadas
    <3>1. Propia(x) /\ (x.fase = "vuelta" => Cierta(x))
      BY <2>1 DEF LlamadasCiertas
    <3>2. Propia(x)'
      BY <3>1 DEF Propia
    <3> QED BY <1>2, <3>1, <3>2
  <2>2. CASE x \notin llamadas
    <3>1. x = n /\ c.tipo = "emitir"
      BY <1>3, <2>2
    <3>2. c.derecho \in Derechos
      BY <3>1 DEF LlamadasCiertas, Propia
    <3> QED BY <1>1, <3>1, <3>2 DEF Propia
  <2> QED BY <2>1, <2>2
<1> QED BY <1>4, <1>5

\* The fields of the page after an answer or a rejection.
LEMMA TrasEmitirEs ==
  ASSUME TipoBoleta, pantalla.derecho \in Derechos, NEW c \in Llamadas,
         NEW fase \in {"exito", "ya-votaste", "cerrada", "error", "sin-conexion"}, NEW cuerpo,
         fase \in {"exito", "ya-votaste"} => cuerpo \in Recibos
  PROVE  LET p == Votante!TrasEmitir(c, fase, cuerpo) IN
         /\ p \in Paginas /\ p.ruta = "votacion" /\ p.derecho = pantalla.derecho /\ p.derechos = {} /\ p.fase = fase
         /\ fase \in {"exito", "ya-votaste"} => p.comprobante = cuerpo
         /\ fase = "cerrada" => p.clave = c.clave
<1>1. Votante!Pagina("votacion", pantalla.derecho) \in Paginas
  BY PaginaNueva DEF Rutas
<1>2. c.eleccion \in Opciones /\ Nulo \in Opciones /\ c.clave \in Claves /\ Nulo \in Claves
  BY DEF Llamadas, Opciones, Claves
<1>3. Votante!Pagina("votacion", pantalla.derecho).derechos = {}
      /\ Votante!Pagina("votacion", pantalla.derecho).ruta = "votacion"
      /\ Votante!Pagina("votacion", pantalla.derecho).derecho = pantalla.derecho
  BY DEF Votante!Pagina
<1> DEFINE cb == IF fase \in {"exito", "ya-votaste"} THEN cuerpo ELSE Nulo
           se == IF fase \in {"error", "sin-conexion"} THEN c.eleccion ELSE Nulo
           cl == IF fase = "cerrada" THEN c.clave ELSE Nulo
           q  == Votante!Pagina("votacion", pantalla.derecho)
<1>4. cb \in Recibos \cup {Nulo} /\ se \in Opciones /\ cl \in Claves
  BY <1>2
<1>5. Votante!TrasEmitir(c, fase, cuerpo) =
        [q EXCEPT !.fase = fase, !.comprobante = cb, !.seleccion = se, !.clave = cl]
  BY DEF Votante!TrasEmitir
<1>6. /\ fase \in {"exito", "ya-votaste"} => cb = cuerpo
      /\ fase = "cerrada" => cl = c.clave
  OBVIOUS
<1> HIDE DEF cb, se, cl, q
<1>7. q \in Paginas /\ q.derechos = {} /\ q.ruta = "votacion" /\ q.derecho = pantalla.derecho
  BY <1>1, <1>3 DEF q
<1> DEFINE p == Votante!TrasEmitir(c, fase, cuerpo)
<1>8. /\ p \in Paginas /\ p.ruta = q.ruta /\ p.derecho = q.derecho /\ p.derechos = q.derechos /\ p.fase = fase
      /\ p.comprobante = cb /\ p.clave = cl
  BY <1>4, <1>5, <1>7 DEF Paginas
<1> QED BY <1>6, <1>7, <1>8

\* An answer reaches the page: it shows what the server said.
LEMMA EntregarBoleta ==
  ASSUME InvBoleta, Sigue, NEW c \in llamadas, Votante!Entregar(c)
  PROVE  InvBoleta'
<1> USE DEF InvBoleta
<1>1. /\ c \in Llamadas /\ c.fase = "vuelta" /\ Cierta(c) /\ Propia(c) /\ llamadas' = llamadas \ {c}
      /\ UNCHANGED <<urna, cerrado, montajes, privado>> /\ pantalla \in Paginas
  BY DEF Votante!Entregar, TipoBoleta, LlamadasCiertas
<1>2. /\ \A d \in Votante!Votados : d \in Votante!Votados'
      /\ \A r : ReciboVeraz(r) => ReciboVeraz(r)'
      /\ \A xs : ListaVeraz(xs) => ListaVeraz(xs)'
      /\ \A k : RechazoVeraz(k) => RechazoVeraz(k)'
  BY Perduran
<1>3. CASE c.tipo = "mis-votaciones"
  <2>1. pantalla' = [pantalla EXCEPT !.fase = "exito", !.derechos = c.respuesta.cuerpo] /\ pantalla.ruta = "mis-votaciones"
    BY <1>1, <1>3 DEF Votante!Entregar, Votante!CargarVotaciones, Propia
  <2>2. PICK xs \in SUBSET Entradas : xs = c.respuesta.cuerpo /\ ListaVeraz(xs)
    BY <1>1, <1>3 DEF Cierta, ListaVeraz
  <2>3. /\ pantalla' \in Paginas /\ pantalla'.ruta = "mis-votaciones" /\ pantalla'.derecho = pantalla.derecho
        /\ pantalla'.fase = "exito" /\ pantalla'.derechos = xs
    BY <1>1, <2>1, <2>2 DEF Paginas
  <2>4. ListaVeraz(pantalla.derechos)'
    BY <1>2, <2>2, <2>3
  <2>5. PaginaCierta'
    BY <2>3, <2>4 DEF PaginaCierta
  <2> QED BY <1>1, <2>1, <2>3, <2>5, TerminarBoleta
<1>4. CASE c.tipo = "votacion"
  <2> DEFINE q == Votante!Pagina("votacion", pantalla.derecho)
  <2>1. pantalla.ruta = "votacion" /\ c.derecho = pantalla.derecho /\ pantalla.derecho \in Derechos
    BY <1>1, <1>4 DEF Propia, PaginaCierta
  <2>2. PICK b \in BOOLEAN : b = c.respuesta.cuerpo /\ (b => c.derecho \in Votante!Votados)
    BY <1>1, <1>4 DEF Cierta
  <2>3. pantalla' = [q EXCEPT !.fase = "papeleta", !.yaVoto = b]
    BY <1>1, <1>4, <2>2 DEF Votante!Entregar, Votante!CargarPapeleta
  <2>4. q \in Paginas /\ q.derechos = {} /\ q.ruta = "votacion" /\ q.derecho = pantalla.derecho
    BY <2>1, PaginaNueva DEF Rutas, Votante!Pagina
  <2> HIDE DEF q
  <2>5. /\ pantalla' \in Paginas /\ pantalla'.ruta = "votacion" /\ pantalla'.derecho = pantalla.derecho
        /\ pantalla'.fase = "papeleta" /\ pantalla'.derechos = {} /\ pantalla'.yaVoto = b
    BY <2>3, <2>4 DEF Paginas
  <2>6. pantalla'.yaVoto => pantalla'.derecho \in Votante!Votados'
    BY <1>2, <2>1, <2>2, <2>5
  <2>7. PaginaCierta'
    BY <2>1, <2>5, <2>6 DEF PaginaCierta, ListaVeraz
  <2> QED BY <1>1, <2>1, <2>5, <2>7, TerminarBoleta
<1>5. CASE c.tipo = "comprobante"
  <2>1. pantalla' = [pantalla EXCEPT !.fase = "exito", !.comprobante = c.respuesta.cuerpo] /\ pantalla.ruta = "comprobante"
    BY <1>1, <1>5 DEF Votante!Entregar, Votante!CargarComprobante, Propia
  <2>2. PICK x \in Recibos : x = c.respuesta.cuerpo /\ ReciboVeraz(x)
    BY <1>1, <1>5 DEF Cierta, ReciboVeraz
  <2>3. /\ pantalla' \in Paginas /\ pantalla'.ruta = "comprobante" /\ pantalla'.derecho = pantalla.derecho
        /\ pantalla'.fase = "exito" /\ pantalla'.derechos = pantalla.derechos /\ pantalla'.comprobante = x
    BY <1>1, <2>1, <2>2 DEF Paginas
  <2>4. ListaVeraz(pantalla.derechos)'
    BY <1>2, <2>3 DEF PaginaCierta
  <2>5. ReciboVeraz(pantalla.comprobante)'
    BY <1>2, <2>2, <2>3
  <2>6. pantalla'.derecho \in Votante!Votados'
    BY <1>2, <2>1, <2>3 DEF PaginaCierta
  <2>7. PaginaCierta'
    BY <2>3, <2>4, <2>5, <2>6 DEF PaginaCierta
  <2> QED BY <1>1, <2>1, <2>3, <2>7, TerminarBoleta
<1>6. CASE c.tipo = "emitir"
  <2>1. pantalla.ruta = "votacion" /\ pantalla.derecho \in Derechos
    BY <1>1, <1>6 DEF Propia, PaginaCierta
  <2>2. PICK fase : fase = Votante!Fase(c.respuesta.estado)
    OBVIOUS
  <2>3. /\ fase \in {"exito", "ya-votaste", "cerrada", "error", "sin-conexion"}
        /\ fase \in {"exito", "ya-votaste"} => c.respuesta.estado \in {"creado", "repetido"}
        /\ fase = "cerrada" => c.respuesta.estado = "VOTACION_CERRADA"
    BY <2>2 DEF Votante!Fase
  <2>4. PICK x : x = c.respuesta.cuerpo
    OBVIOUS
  <2>5. /\ fase \in {"exito", "ya-votaste"} => ReciboVeraz(x) /\ x \in Recibos
        /\ fase = "cerrada" => RechazoVeraz(c.clave)
    BY <1>1, <1>6, <2>3, <2>4 DEF Cierta, ReciboVeraz
  <2>6. pantalla' = Votante!TrasEmitir(c, fase, x)
    BY <1>1, <1>6, <2>2, <2>4 DEF Votante!Entregar
  <2>7. /\ pantalla' \in Paginas /\ pantalla'.ruta = "votacion" /\ pantalla'.derecho = pantalla.derecho
        /\ pantalla'.derechos = {} /\ pantalla'.fase = fase
        /\ fase \in {"exito", "ya-votaste"} => pantalla'.comprobante = x
        /\ fase = "cerrada" => pantalla'.clave = c.clave
    BY <1>1, <2>1, <2>3, <2>5, <2>6, TrasEmitirEs
  <2>8. fase \in {"exito", "ya-votaste"} => ReciboVeraz(pantalla.comprobante)'
    BY <1>2, <2>5, <2>7
  <2>9. fase = "cerrada" => RechazoVeraz(pantalla.clave)'
    BY <1>2, <2>5, <2>7
  <2>10. PaginaCierta'
    BY <2>1, <2>3, <2>7, <2>8, <2>9 DEF PaginaCierta, ListaVeraz
  <2> QED BY <1>1, <2>1, <2>7, <2>10, TerminarBoleta
<1> QED BY <1>1, <1>3, <1>4, <1>5, <1>6 DEF Llamadas, Rutas

\* A fetch rejects: the page says so, and a vote may still be on its way.
LEMMA CortarBoleta ==
  ASSUME InvBoleta, Sigue, NEW c \in llamadas, Votante!Cortar(c)
  PROVE  InvBoleta'
<1> USE DEF InvBoleta
<1>1. /\ c \in Llamadas /\ c.fase # "huerfana" /\ Propia(c) /\ pantalla \in Paginas
      /\ UNCHANGED <<urna, cerrado, montajes, privado>>
  BY DEF Votante!Cortar, TipoBoleta, LlamadasCiertas
<1>2. \/ llamadas' = llamadas \ {c}
      \/ llamadas' = (llamadas \ {c}) \cup {[c EXCEPT !.fase = "huerfana"]} /\ c.tipo = "emitir"
  <2>1. PICK resto \in {{}, {[c EXCEPT !.fase = "huerfana"]}} :
          (resto # {} => c.tipo = "emitir") /\ llamadas' = (llamadas \ {c}) \cup resto
    BY DEF Votante!Cortar
  <2> QED BY <2>1
<1>3. /\ \A d \in Votante!Votados : d \in Votante!Votados'
      /\ \A xs : ListaVeraz(xs) => ListaVeraz(xs)'
  BY Perduran
<1>4. CASE c.tipo = "emitir"
  <2>1. pantalla.ruta = "votacion" /\ pantalla.derecho \in Derechos
    BY <1>1, <1>4 DEF Propia, PaginaCierta
  <2>2. pantalla' = Votante!TrasEmitir(c, "sin-conexion", Nulo)
    BY <1>4 DEF Votante!Cortar
  <2>3. /\ pantalla' \in Paginas /\ pantalla'.ruta = "votacion" /\ pantalla'.derecho = pantalla.derecho
        /\ pantalla'.derechos = {} /\ pantalla'.fase = "sin-conexion"
    BY <1>1, <2>1, <2>2, TrasEmitirEs
  <2>4. PaginaCierta'
    BY <2>1, <2>3 DEF PaginaCierta, ListaVeraz
  <2> QED BY <1>1, <1>2, <2>1, <2>3, <2>4, TerminarBoleta
<1>5. CASE c.tipo # "emitir"
  <2>1. pantalla' = [pantalla EXCEPT !.fase = "no-disponible"]
    BY <1>5 DEF Votante!Cortar
  <2>2. /\ pantalla' \in Paginas /\ pantalla'.ruta = pantalla.ruta /\ pantalla'.derecho = pantalla.derecho
        /\ pantalla'.derechos = pantalla.derechos /\ pantalla'.fase = "no-disponible"
    BY <1>1, <2>1 DEF Paginas
  <2>3. ListaVeraz(pantalla.derechos)'
    BY <1>3, <2>2 DEF PaginaCierta
  <2>4. PaginaCierta'
    BY <1>3, <2>2, <2>3 DEF PaginaCierta
  <2> QED BY <1>1, <1>2, <2>2, <2>4, TerminarBoleta
<1> QED BY <1>4, <1>5

\* The invariant of the pages of the voter holds at the start.
LEMMA BoletaInicial == ASSUME Votante!InitBoleta PROVE InvBoleta
<1> DEFINE p == Votante!Pagina("mis-votaciones", Nulo)
           g == Votante!Get("mis-votaciones", Nulo)
<1>1. /\ p \in Paginas /\ g \in Llamadas
      /\ g.tipo = "mis-votaciones" /\ g.derecho = Nulo /\ g.fase = "ida"
  BY PaginaNueva DEF Rutas
<1>2. /\ p.ruta = "mis-votaciones" /\ p.derecho = Nulo /\ p.derechos = {} /\ p.fase = "cargando"
  BY DEF Votante!Pagina
<1>3. /\ urna = [d \in Derechos |-> Nulo] /\ cerrado = FALSE /\ pantalla = p /\ llamadas = {g}
      /\ montajes = 1 /\ privado \in BOOLEAN
  BY DEF Votante!InitBoleta
<1> HIDE DEF p, g
<1>4. TipoBoleta
  BY <1>1, <1>3 DEF TipoBoleta
<1>5. LlamadasCiertas
  BY <1>1, <1>2, <1>3 DEF LlamadasCiertas, Propia
<1>6. PaginaCierta
  BY <1>2, <1>3 DEF PaginaCierta, ListaVeraz
<1> QED BY <1>4, <1>5, <1>6 DEF InvBoleta

\* Every step of the pages of the voter keeps their invariant.
LEMMA PasoBoleta == ASSUME InvBoleta, Votante!NextBoleta PROVE InvBoleta'
<1>1. Sigue
  BY BoletaSigue
<1>2. CASE Votante!VencerPlazo \/ \E d \in Derechos, e \in Elecciones : Votante!OtroDispositivo(d, e)
  <2>1. UNCHANGED <<llamadas, pantalla, montajes, privado>>
    BY <1>2 DEF Votante!VencerPlazo, Votante!OtroDispositivo
  <2>2. pantalla' \in Paginas
    BY <2>1 DEF InvBoleta, TipoBoleta
  <2> QED BY <1>1, <2>1, <2>2, QuietaBoleta
<1>3. ASSUME NEW c \in llamadas, Votante!Atender(c) PROVE InvBoleta'
  BY <1>1, <1>3, LeerBoleta, RegistrarBoleta
<1>4. CASE Votante!Confirmar \/ Votante!Reintentar
  <2>1. pantalla.ruta = "votacion" /\ Votante!Emitir
    BY <1>4 DEF Votante!Confirmar, Votante!Reintentar, Votante!EnPaso
  <2> QED BY <1>1, <2>1, EnviarBoleta
<1>5. CASE \/ Votante!VerVotaciones \/ Votante!Recargar
           \/ \E d \in Derechos : Votante!Votar(d) \/ Votante!AbrirComprobante(d)
  BY <1>1, <1>5, NavegarBoleta
<1>6. CASE \E d \in Derechos : Votante!Saltar(d)
  BY <1>1, <1>6, SaltarBoleta
<1>7. CASE \/ Votante!Comenzar \/ Votante!Siguiente \/ Votante!Volver \/ Votante!Consentir
           \/ \E e \in Elecciones : Votante!Seleccionar(e)
  BY <1>1, <1>7, PasosBoleta
<1>8. CASE \E c \in llamadas : Votante!Entregar(c) \/ Votante!Cortar(c)
  BY <1>1, <1>8, EntregarBoleta, CortarBoleta
<1> QED BY <1>2, <1>3, <1>4, <1>5, <1>6, <1>7, <1>8 DEF Votante!NextBoleta

\* What the pages of the voter say of the vote follows from it.
LEMMA BoletaDiceVerdad == InvBoleta => Votante!PantallaVeraz
<1> SUFFICES ASSUME InvBoleta PROVE Votante!PantallaVeraz
  OBVIOUS
<1> USE DEF InvBoleta
<1>1. Votante!ExitoVeraz
  <2>1. \A r : ReciboVeraz(r) => r # Nulo /\ r.derecho \in Votante!Votados /\ r.eleccion = urna[r.derecho].eleccion
    BY ConstantesPantallas DEF ReciboVeraz, Recibos, Opciones
  <2> QED BY <2>1 DEF Votante!ExitoVeraz, PaginaCierta
<1>2. Votante!CierreVeraz
  BY DEF Votante!CierreVeraz, PaginaCierta, RechazoVeraz
<1>3. Votante!BloqueoVeraz
  BY DEF Votante!BloqueoVeraz, PaginaCierta, ListaVeraz
<1> QED BY <1>1, <1>2, <1>3 DEF Votante!PantallaVeraz
-----------------------------------------------------------------------------
(* The administration panels *)

IdsONulo == Ids \cup {Nulo}
Dialogos == {"eliminar", "activar", "desbloquear", "estado"}
Filas    == [persona : Personas, grupo : Grupos, valores : Ids, fin : {Nulo, "eliminar", "baja"}]
Formas   == [abierta : BOOLEAN, fila : IdsONulo, origen : IdsONulo]
Pedidos ==
  [tipo : {"listar", "crear", "actualizar", "alta", "baja"} \cup Dialogos, fila : IdsONulo, persona : Personas \cup {Nulo},
   grupo : Grupos \cup {Nulo}, origen : IdsONulo, filtro : Grupos \cup {Nulo}, fase : {"ida", "vuelta", "huerfana"},
   ok : BOOLEAN, vinculo : {"panel", "padre", "nadie"}]
Montados ==
  [de : Piezas, filtro : Grupos \cup {Nulo}, filas : SUBSET Ids, forma : Formas, enviando : BOOLEAN,
   dialogo : [tipo : Dialogos, fila : IdsONulo] \cup {Nulo}, procesando : BOOLEAN,
   traslado : [paso : {"confirmar", "formulario"}, fila : Ids] \cup {Nulo}, trasladando : BOOLEAN]

TipoTabla == DOMAIN tabla \subseteq Ids /\ tabla \in [DOMAIN tabla -> Filas]
TipoPaneles == TipoTabla /\ panel \in Montados /\ pedidos \subseteq Pedidos

\* What the panel shows is of rows that exist, and its form is of its own row.
PanelSano ==
  /\ panel.filas \subseteq DOMAIN tabla
  /\ panel.forma.origen = panel.forma.fila
  /\ panel.traslado # Nulo => panel.traslado.fila \in DOMAIN tabla

\* A call carries what its handler captured.
PedidoSano(c) ==
  /\ c.tipo = "crear" => c.origen = Nulo /\ c.persona \in Personas /\ c.grupo \in Grupos
  /\ c.tipo = "actualizar" => c.origen = c.fila
  /\ c.tipo = "alta" => /\ c.origen = Nulo /\ c.grupo \in Grupos /\ c.fila \in DOMAIN tabla
                        /\ c.persona = tabla[c.fila].persona
  /\ c.tipo = "baja" => c.fila \in DOMAIN tabla

\* The rows a traslado has deleted, or is going to.
Condena(c)   == c.tipo = "baja" \/ (c.tipo = "alta" /\ c.fase = "vuelta" /\ c.ok)
Condenada(i) == \E c \in pedidos : Condena(c) /\ c.fila = i

\* Each student has a matricula that somebody deleted on purpose, or that no traslado deletes.
Conserva(i) == tabla[i].fin = "eliminar" \/ (tabla[i].fin = Nulo /\ ~Condenada(i))
Suya(i, u)  == i \in DOMAIN tabla /\ tabla[i].persona = u
SinHueco    == \A u \in Personas : (\E i \in Ids : Suya(i, u)) => \E i \in Ids : Suya(i, u) /\ Conserva(i)

InvPaneles ==
  /\ TipoPaneles /\ PanelSano /\ SinHueco
  /\ \A c \in pedidos : PedidoSano(c)
  /\ \A i \in DOMAIN tabla : tabla[i].valores = i
-----------------------------------------------------------------------------
(* The calls and the panel *)

\* A new call.
LEMMA PedidoNuevo ==
  ASSUME NEW tipo \in {"listar", "crear", "actualizar", "alta", "baja"} \cup Dialogos, NEW i \in IdsONulo,
         NEW g \in Grupos \cup {Nulo}
  PROVE  LET c == Administrar!Pedido(tipo, i, g) IN
         c \in Pedidos /\ c.tipo = tipo /\ c.fila = i /\ c.fase = "ida" /\ c.origen = Nulo /\ c.vinculo = "panel"
BY DEF Administrar!Pedido, Pedidos, IdsONulo

\* A listing is neither a traslado nor a form.
LEMMA RecargarSano ==
  ASSUME NEW de, NEW g \in Grupos \cup {Nulo}, NEW c \in Administrar!Recargar(de, g)
  PROVE  c \in Pedidos /\ c.tipo = "listar" /\ PedidoSano(c) /\ ~Condena(c)
<1>1. c = Administrar!Pedido("listar", Nulo, g)
  BY DEF Administrar!Recargar
<1>2. c \in Pedidos /\ c.tipo = "listar"
  BY <1>1, PedidoNuevo DEF IdsONulo
<1> QED BY <1>2 DEF PedidoSano, Condena

\* What is done to a call that changes hands.
LEMMA PedidoHeredado ==
  ASSUME InvPaneles, NEW x \in pedidos
  PROVE  /\ \A v \in {"panel", "padre", "nadie"} : LET c == [x EXCEPT !.vinculo = v] IN
              c \in Pedidos /\ PedidoSano(c) /\ (Condena(c) => Condenada(c.fila)) /\ c.fila = x.fila
         /\ LET c == [x EXCEPT !.fase = "huerfana"] IN
              c \in Pedidos /\ PedidoSano(c) /\ (Condena(c) => Condenada(c.fila)) /\ c.fila = x.fila
<1>1. x \in Pedidos /\ PedidoSano(x)
  BY DEF InvPaneles, TipoPaneles
<1>2. ASSUME NEW c \in Pedidos, c.tipo = x.tipo, c.fila = x.fila, c.persona = x.persona, c.grupo = x.grupo,
             c.origen = x.origen, Condena(c) => Condena(x)
      PROVE  PedidoSano(c) /\ (Condena(c) => Condenada(c.fila))
  BY <1>1, <1>2 DEF PedidoSano, Condenada
<1>3. ASSUME NEW v \in {"panel", "padre", "nadie"}
      PROVE  LET c == [x EXCEPT !.vinculo = v] IN
             c \in Pedidos /\ PedidoSano(c) /\ (Condena(c) => Condenada(c.fila)) /\ c.fila = x.fila
  <2> DEFINE c == [x EXCEPT !.vinculo = v]
  <2>1. /\ c \in Pedidos /\ c.tipo = x.tipo /\ c.fila = x.fila /\ c.persona = x.persona /\ c.grupo = x.grupo
        /\ c.origen = x.origen /\ c.fase = x.fase /\ c.ok = x.ok
    BY <1>1 DEF Pedidos
  <2> HIDE DEF c
  <2>2. Condena(c) => Condena(x)
    BY <2>1 DEF Condena
  <2>3. PedidoSano(c) /\ (Condena(c) => Condenada(c.fila))
    BY <1>2, <2>1, <2>2
  <2> QED BY <2>1, <2>3 DEF c
<1>4. LET c == [x EXCEPT !.fase = "huerfana"] IN
      c \in Pedidos /\ PedidoSano(c) /\ (Condena(c) => Condenada(c.fila)) /\ c.fila = x.fila
  <2> DEFINE c == [x EXCEPT !.fase = "huerfana"]
  <2>1. /\ c \in Pedidos /\ c.tipo = x.tipo /\ c.fila = x.fila /\ c.persona = x.persona /\ c.grupo = x.grupo
        /\ c.origen = x.origen /\ c.fase = "huerfana"
    BY <1>1 DEF Pedidos
  <2> HIDE DEF c
  <2>2. Condena(c) => Condena(x)
    BY <2>1 DEF Condena
  <2>3. PedidoSano(c) /\ (Condena(c) => Condenada(c.fila))
    BY <1>2, <2>1, <2>2
  <2> QED BY <2>1, <2>3 DEF c
<1> QED BY <1>3, <1>4

\* A step that leaves the rows alone, and whose calls condemn nothing new.
LEMMA QuietoPaneles ==
  ASSUME InvPaneles, UNCHANGED tabla, panel' \in Montados, PanelSano',
         \A c \in pedidos' : c \in Pedidos /\ PedidoSano(c) /\ (Condena(c) => Condenada(c.fila))
  PROVE  InvPaneles'
<1> USE DEF InvPaneles
<1>1. TipoPaneles'
  BY DEF TipoPaneles, TipoTabla
<1>2. \A c \in pedidos' : PedidoSano(c)'
  BY DEF PedidoSano
<1>3. \A i \in DOMAIN tabla' : tabla'[i].valores = i
  OBVIOUS
<1>4. SinHueco'
  <2>1. \A i : Condenada(i)' => Condenada(i)
    BY DEF Condenada
  <2>2. \A i : Conserva(i) => Conserva(i)'
    BY <2>1 DEF Conserva
  <2>3. \A i, u : Suya(i, u)' <=> Suya(i, u)
    BY DEF Suya
  <2> QED BY <2>2, <2>3 DEF SinHueco
<1> QED BY <1>1, <1>2, <1>3, <1>4

\* What a panel shows stays of rows that exist.
LEMMA PanelIgual ==
  ASSUME PanelSano, UNCHANGED tabla, panel'.filas \subseteq DOMAIN tabla, panel'.forma \in {panel.forma, Administrar!SinForma},
         panel'.traslado \in {panel.traslado, Nulo}
  PROVE  PanelSano'
BY DEF PanelSano, Administrar!SinForma

\* The panel of a step of the user that makes no call.
LEMMA SoloPaneles ==
  ASSUME InvPaneles, UNCHANGED <<tabla, pedidos>>, panel' \in Montados, PanelSano'
  PROVE  InvPaneles'
<1>1. \A c \in pedidos' : c \in Pedidos /\ PedidoSano(c) /\ (Condena(c) => Condenada(c.fila))
  BY DEF InvPaneles, TipoPaneles, Condenada
<1> QED BY <1>1, QuietoPaneles

\* A step of the user that makes a call c.
LEMMA PedirPaneles ==
  ASSUME InvPaneles, NEW p, panel' = p, p \in Montados, p.filas = panel.filas, p.forma = panel.forma, p.traslado = panel.traslado,
         NEW c \in Pedidos, PedidoSano(c), c.fase = "ida", c.tipo # "baja", pedidos' = pedidos \cup {c}, UNCHANGED tabla
  PROVE  InvPaneles'
<1>1. PanelSano'
  BY PanelIgual DEF InvPaneles, PanelSano
<1>2. \A x \in pedidos' : x \in Pedidos /\ PedidoSano(x) /\ (Condena(x) => Condenada(x.fila))
  BY DEF InvPaneles, TipoPaneles, Condena, Condenada
<1> QED BY <1>1, <1>2, QuietoPaneles
-----------------------------------------------------------------------------
(* The user of a panel *)

\* A panel that is mounted again, its calls left without a handler.
LEMMA RemontarPaneles ==
  ASSUME InvPaneles, Administrar!Remontar \/ Administrar!RecargarPagina
  PROVE  InvPaneles'
<1> DEFINE p == Administrar!Montado(panel.de)
<1>1. panel' = p /\ tabla' = tabla
  BY DEF Administrar!Remontar, Administrar!RecargarPagina
<1>2. panel.de \in Piezas
  BY DEF InvPaneles, TipoPaneles, Montados
<1>3. p \in Montados /\ p.filas = {} /\ p.forma = Administrar!SinForma /\ p.traslado = Nulo
  BY <1>2 DEF Administrar!Montado, Administrar!SinForma, Montados, Formas, IdsONulo
<1> HIDE DEF p
<1>4. PanelSano'
  BY <1>1, <1>3, PanelIgual DEF InvPaneles
<1>5. ASSUME NEW c \in pedidos' PROVE c \in Pedidos /\ PedidoSano(c) /\ (Condena(c) => Condenada(c.fila))
  <2>1. CASE c \in Administrar!Recargar(panel.de, Nulo)
    BY <2>1, RecargarSano
  <2>2. CASE \E x \in pedidos : c = [x EXCEPT !.vinculo = "nadie"]
    BY <2>2, PedidoHeredado
  <2>3. CASE \E x \in pedidos : c = [x EXCEPT !.fase = "huerfana"]
    BY <2>3, PedidoHeredado
  <2> QED BY <2>1, <2>2, <2>3 DEF Administrar!Remontar, Administrar!RecargarPagina
<1> QED BY <1>1, <1>3, <1>4, <1>5, QuietoPaneles

\* The filter, and the listing it asks for.
LEMMA FiltrarPaneles ==
  ASSUME InvPaneles, NEW g \in Grupos \cup {Nulo}, Administrar!Filtrar(g)
  PROVE  InvPaneles'
<1>1. PICK fs : fs = IF Administrar!Recargar(panel.de, g) = {} THEN {} ELSE panel.filas
  OBVIOUS
<1>2. panel' = [panel EXCEPT !.filtro = g, !.filas = fs] /\ tabla' = tabla
      /\ pedidos' = pedidos \cup Administrar!Recargar(panel.de, g)
  BY <1>1 DEF Administrar!Filtrar
<1>3. panel \in Montados /\ fs \in SUBSET Ids /\ fs \subseteq DOMAIN tabla
  BY <1>1 DEF InvPaneles, TipoPaneles, Montados, PanelSano
<1>4. panel' \in Montados /\ panel'.filas = fs /\ panel'.forma = panel.forma /\ panel'.traslado = panel.traslado
  BY <1>2, <1>3 DEF Montados
<1>5. PanelSano'
  BY <1>2, <1>3, <1>4, PanelIgual DEF InvPaneles
<1>6. \A c \in pedidos' : c \in Pedidos /\ PedidoSano(c) /\ (Condena(c) => Condenada(c.fila))
  BY <1>2, RecargarSano DEF InvPaneles, TipoPaneles, Condenada
<1> QED BY <1>2, <1>4, <1>5, <1>6, QuietoPaneles

\* A form is opened on its own row (the key of FormularioGenerico).
LEMMA AbrirPaneles ==
  ASSUME InvPaneles, NEW i \in IdsONulo, Administrar!Abrir(i)
  PROVE  InvPaneles'
<1> DEFINE f == [abierta |-> TRUE, fila |-> i, origen |-> i]
<1>1. panel' = [panel EXCEPT !.forma = f] /\ UNCHANGED <<tabla, pedidos>>
  BY DEF Administrar!Abrir, Administrar!Solo, Administrar!Origen
<1>2. f \in Formas /\ f.origen = f.fila
  BY DEF Formas
<1> HIDE DEF f
<1>3. panel \in Montados
  BY DEF InvPaneles, TipoPaneles
<1>4. panel' \in Montados /\ panel'.filas = panel.filas /\ panel'.forma = f /\ panel'.traslado = panel.traslado
  BY <1>1, <1>2, <1>3 DEF Montados
<1>5. PanelSano'
  BY <1>1, <1>2, <1>4 DEF InvPaneles, PanelSano
<1> QED BY <1>1, <1>4, <1>5, SoloPaneles

\* The form is left; in the ficha its calls only reach the parent.
LEMMA CancelarPaneles ==
  ASSUME InvPaneles, Administrar!CancelarForma
  PROVE  InvPaneles'
<1>1. panel \in Montados /\ panel.de.ficha \in BOOLEAN
  BY DEF InvPaneles, TipoPaneles, Montados, Piezas
<1>2. PICK f : f = panel.de.ficha
  OBVIOUS
<1>3. PICK d : d = IF f THEN Nulo ELSE panel.dialogo
  OBVIOUS
<1>4. PICK b1 \in BOOLEAN : b1 = (panel.enviando /\ ~f)
  OBVIOUS
<1>5. PICK b2 \in BOOLEAN : b2 = (panel.procesando /\ ~f)
  OBVIOUS
<1>6. panel' = [panel EXCEPT !.forma = Administrar!SinForma, !.enviando = b1, !.dialogo = d, !.procesando = b2] /\ tabla' = tabla
  BY <1>2, <1>3, <1>4, <1>5 DEF Administrar!CancelarForma
<1>7. Administrar!SinForma \in Formas /\ d \in [tipo : Dialogos, fila : IdsONulo] \cup {Nulo}
  BY <1>1, <1>3 DEF Administrar!SinForma, Formas, Montados, IdsONulo
<1>8. /\ panel' \in Montados /\ panel'.filas = panel.filas /\ panel'.forma = Administrar!SinForma
      /\ panel'.traslado = panel.traslado
  BY <1>1, <1>6, <1>7 DEF Montados
<1>9. PanelSano'
  BY <1>6, <1>8, PanelIgual DEF InvPaneles, PanelSano
<1>10. ASSUME NEW c \in pedidos' PROVE c \in Pedidos /\ PedidoSano(c) /\ (Condena(c) => Condenada(c.fila))
  <2>1. CASE c \in pedidos
    BY <2>1 DEF InvPaneles, TipoPaneles, Condenada
  <2>2. CASE \E x \in pedidos : c = [x EXCEPT !.vinculo = "padre"]
    BY <2>2, PedidoHeredado
  <2> QED BY <2>1, <2>2 DEF Administrar!CancelarForma
<1> QED BY <1>6, <1>8, <1>9, <1>10, QuietoPaneles

\* A form is sent: a creation, or a change of its own row.
LEMMA EnviarPaneles ==
  ASSUME InvPaneles, NEW u \in Personas, NEW g \in Grupos, Administrar!Enviar(u, g)
  PROVE  InvPaneles'
<1> DEFINE i == panel.forma.fila
           t == IF i = Nulo THEN "crear" ELSE "actualizar"
           k == Administrar!Pedido(t, i, panel.filtro)
           c == [k EXCEPT !.persona = u, !.grupo = g, !.origen = panel.forma.origen]
           p == [panel EXCEPT !.enviando = TRUE]
<1>1. /\ panel \in Montados /\ i \in IdsONulo /\ panel.forma.origen = i /\ panel.filtro \in Grupos \cup {Nulo}
  BY DEF InvPaneles, TipoPaneles, Montados, Formas, PanelSano
<1>2. panel' = p /\ pedidos' = pedidos \cup {c} /\ tabla' = tabla
  BY DEF Administrar!Enviar, Administrar!Pedir
<1>3. p \in Montados /\ p.filas = panel.filas /\ p.forma = panel.forma /\ p.traslado = panel.traslado
  BY <1>1 DEF Montados
<1>4. t \in {"crear", "actualizar"} /\ (t = "crear" => i = Nulo)
  OBVIOUS
<1>5. k \in Pedidos /\ k.tipo = t /\ k.fila = i /\ k.fase = "ida"
  BY <1>1, <1>4, PedidoNuevo
<1> HIDE DEF k, t, p
<1>6. c \in Pedidos /\ c.tipo = t /\ c.fila = i /\ c.fase = "ida" /\ c.persona = u /\ c.grupo = g /\ c.origen = i
  BY <1>1, <1>5 DEF Pedidos
<1> HIDE DEF c, i
<1>7. PedidoSano(c)
  BY <1>4, <1>6 DEF PedidoSano
<1> QED BY <1>2, <1>3, <1>4, <1>6, <1>7, PedirPaneles

\* The dialog.
LEMMA DialogoPaneles ==
  ASSUME InvPaneles,
         \/ Administrar!CancelarDialogo \/ Administrar!ConfirmarDialogo
         \/ \E i \in Ids : \E t \in panel.de.dialogos : Administrar!AbrirDialogo(t, i)
  PROVE  InvPaneles'
<1>1. panel \in Montados /\ panel.de.dialogos \subseteq Dialogos
  BY DEF InvPaneles, TipoPaneles, Montados, Piezas, Dialogos
<1>2. ASSUME NEW d \in [tipo : Dialogos, fila : IdsONulo] \cup {Nulo}, panel' = [panel EXCEPT !.dialogo = d],
             UNCHANGED <<tabla, pedidos>>
      PROVE  InvPaneles'
  <2>1. panel' \in Montados /\ panel'.filas = panel.filas /\ panel'.forma = panel.forma /\ panel'.traslado = panel.traslado
    BY <1>1, <1>2 DEF Montados
  <2>2. PanelSano'
    BY <1>2, <2>1, PanelIgual DEF InvPaneles, PanelSano
  <2> QED BY <1>2, <2>1, <2>2, SoloPaneles
<1>3. CASE Administrar!CancelarDialogo
  BY <1>2, <1>3 DEF Administrar!CancelarDialogo, Administrar!Solo
<1>4. ASSUME NEW i \in Ids, NEW t \in panel.de.dialogos, Administrar!AbrirDialogo(t, i) PROVE InvPaneles'
  <2>1. PICK d : d = [tipo |-> t, fila |-> i]
    OBVIOUS
  <2>2. d \in [tipo : Dialogos, fila : IdsONulo]
    BY <1>1, <2>1 DEF IdsONulo
  <2> QED BY <1>2, <1>4, <2>1, <2>2 DEF Administrar!AbrirDialogo, Administrar!Solo
<1>5. CASE Administrar!ConfirmarDialogo
  <2> DEFINE t == panel.dialogo.tipo
             i == panel.dialogo.fila
             c == Administrar!Pedido(t, i, panel.filtro)
             p == [panel EXCEPT !.procesando = TRUE]
  <2>1. t \in Dialogos /\ i \in IdsONulo /\ panel.filtro \in Grupos \cup {Nulo}
    BY <1>1, <1>5 DEF Administrar!ConfirmarDialogo, Montados
  <2>2. panel' = p /\ pedidos' = pedidos \cup {c} /\ tabla' = tabla
    BY <1>5 DEF Administrar!ConfirmarDialogo, Administrar!Pedir
  <2>3. p \in Montados /\ p.filas = panel.filas /\ p.forma = panel.forma /\ p.traslado = panel.traslado
    BY <1>1 DEF Montados
  <2> HIDE DEF t, i
  <2>4. c \in Pedidos /\ c.tipo = t /\ c.fase = "ida"
    <3>1. t \in {"listar", "crear", "actualizar", "alta", "baja"} \cup Dialogos
      BY <2>1
    <3> HIDE DEF c
    <3>2. c = Administrar!Pedido(t, i, panel.filtro)
      BY DEF c
    <3> QED BY <2>1, <3>1, <3>2, PedidoNuevo
  <2> HIDE DEF c, p
  <2>5. PedidoSano(c) /\ c.tipo # "baja"
    BY <2>1, <2>4 DEF PedidoSano, Dialogos
  <2> QED BY <2>2, <2>3, <2>4, <2>5, PedirPaneles
<1> QED BY <1>3, <1>4, <1>5

\* The steps of a traslado before its calls, of a row on the screen.
LEMMA TrasladoPaneles ==
  ASSUME InvPaneles,
         Administrar!ConfirmarPasoUno \/ Administrar!CancelarTraslado \/ \E i \in Ids : Administrar!PedirTraslado(i)
  PROVE  InvPaneles'
<1>1. panel \in Montados /\ PanelSano
  BY DEF InvPaneles, TipoPaneles
<1>2. ASSUME NEW d \in [paso : {"confirmar", "formulario"}, fila : Ids] \cup {Nulo}, panel' = [panel EXCEPT !.traslado = d],
             d # Nulo => d.fila \in DOMAIN tabla, UNCHANGED <<tabla, pedidos>>
      PROVE  InvPaneles'
  <2>1. panel' \in Montados /\ panel'.filas = panel.filas /\ panel'.forma = panel.forma /\ panel'.traslado = d
    BY <1>1, <1>2 DEF Montados
  <2>2. PanelSano'
    BY <1>1, <1>2, <2>1 DEF PanelSano
  <2> QED BY <1>2, <2>1, <2>2, SoloPaneles
<1>3. CASE Administrar!CancelarTraslado
  BY <1>2, <1>3 DEF Administrar!CancelarTraslado, Administrar!Solo
<1>4. CASE Administrar!ConfirmarPasoUno
  <2>1. panel.traslado \in [paso : {"confirmar", "formulario"}, fila : Ids] /\ panel.traslado.fila \in DOMAIN tabla
    BY <1>1, <1>4 DEF Administrar!ConfirmarPasoUno, Montados, PanelSano
  <2>2. PICK d : d = [panel.traslado EXCEPT !.paso = "formulario"]
    OBVIOUS
  <2>3. d \in [paso : {"confirmar", "formulario"}, fila : Ids] /\ d.fila \in DOMAIN tabla
    BY <2>1, <2>2
  <2>4. panel' = [panel EXCEPT !.traslado = d] /\ UNCHANGED <<tabla, pedidos>>
    BY <1>4, <2>2 DEF Administrar!ConfirmarPasoUno, Administrar!Solo
  <2> QED BY <1>2, <2>3, <2>4
<1>5. ASSUME NEW i \in Ids, Administrar!PedirTraslado(i) PROVE InvPaneles'
  <2>1. PICK d : d = [paso |-> "confirmar", fila |-> i]
    OBVIOUS
  <2>2. d \in [paso : {"confirmar", "formulario"}, fila : Ids] /\ d.fila = i /\ i \in DOMAIN tabla
    BY <1>1, <1>5, <2>1 DEF Administrar!PedirTraslado, PanelSano
  <2> QED BY <1>2, <1>5, <2>1, <2>2 DEF Administrar!PedirTraslado, Administrar!Solo
<1> QED BY <1>3, <1>4, <1>5

\* trasladarMatricula(): the alta, of the person of the row.
LEMMA TrasladarPaneles ==
  ASSUME InvPaneles, NEW g \in Grupos, Administrar!Trasladar(g)
  PROVE  InvPaneles'
<1> DEFINE i == panel.traslado.fila
           k == Administrar!Pedido("alta", i, panel.filtro)
           c == [k EXCEPT !.persona = tabla[i].persona, !.grupo = g]
           p == [panel EXCEPT !.trasladando = TRUE]
<1>1. panel \in Montados /\ i \in Ids /\ i \in DOMAIN tabla /\ panel.filtro \in Grupos \cup {Nulo}
  BY DEF InvPaneles, TipoPaneles, Montados, PanelSano, Administrar!Trasladar
<1>2. tabla[i].persona \in Personas
  BY <1>1 DEF InvPaneles, TipoPaneles, TipoTabla, Filas
<1>3. panel' = p /\ pedidos' = pedidos \cup {c} /\ tabla' = tabla
  BY DEF Administrar!Trasladar, Administrar!Pedir
<1>4. p \in Montados /\ p.filas = panel.filas /\ p.forma = panel.forma /\ p.traslado = panel.traslado
  BY <1>1 DEF Montados
<1>5. k \in Pedidos /\ k.tipo = "alta" /\ k.fila = i /\ k.fase = "ida" /\ k.origen = Nulo
  BY <1>1, PedidoNuevo DEF IdsONulo
<1> HIDE DEF k, p, i
<1>6. c \in Pedidos /\ c.tipo = "alta" /\ c.fila = i /\ c.fase = "ida"
      /\ c.persona = tabla[i].persona /\ c.grupo = g /\ c.origen = Nulo
  BY <1>2, <1>5 DEF Pedidos
<1> HIDE DEF c
<1>7. PedidoSano(c)
  BY <1>1, <1>6 DEF PedidoSano
<1> QED BY <1>3, <1>4, <1>6, <1>7, PedirPaneles
-----------------------------------------------------------------------------
(* The server of a panel *)

\* The calls after the server takes one: it condemns a row only when it did an alta.
LEMMA PedidosAtendidos ==
  ASSUME InvPaneles, NEW c \in pedidos, Administrar!Atender(c)
  PROVE  /\ \A x \in pedidos' :
              /\ x \in Pedidos /\ PedidoSano(x)
              /\ Condena(x) => Condenada(x.fila) \/ (x.fila = c.fila /\ c.tipo = "alta" /\ Administrar!Efectos(c) # {})
         /\ c \in Pedidos /\ PedidoSano(c) /\ panel' = panel
<1> DEFINE n == [c EXCEPT !.fase = "vuelta", !.ok = (Administrar!Efectos(c) # {})]
<1>1. c \in Pedidos /\ PedidoSano(c) /\ panel' = panel
  BY DEF InvPaneles, TipoPaneles, Administrar!Atender
<1>2. PICK b \in BOOLEAN : b <=> Administrar!Efectos(c) # {}
  OBVIOUS
<1>3. n = [c EXCEPT !.fase = "vuelta", !.ok = b]
  BY <1>2
<1>4. pedidos' = (pedidos \ {c}) \cup (IF c.fase = "huerfana" THEN {} ELSE {n})
  BY DEF Administrar!Atender
<1> HIDE DEF n
<1>5. /\ n \in Pedidos /\ n.tipo = c.tipo /\ n.fila = c.fila /\ n.persona = c.persona /\ n.grupo = c.grupo
      /\ n.origen = c.origen /\ n.ok = b
  BY <1>1, <1>3 DEF Pedidos
<1>6. PedidoSano(n)
  BY <1>1, <1>5 DEF PedidoSano
<1>7. Condena(n) => Condenada(n.fila) \/ (n.fila = c.fila /\ c.tipo = "alta" /\ Administrar!Efectos(c) # {})
  BY <1>2, <1>5 DEF Condena, Condenada
<1>8. \A x \in pedidos : x \in Pedidos /\ PedidoSano(x) /\ (Condena(x) => Condenada(x.fila))
  BY DEF InvPaneles, TipoPaneles, Condenada
<1> QED BY <1>1, <1>4, <1>5, <1>6, <1>7, <1>8

\* What is left to show of each effect on the rows.
LEMMA EfectoPaneles ==
  ASSUME InvPaneles, NEW c \in pedidos, Administrar!Atender(c), TipoTabla',
         \A i \in DOMAIN tabla : i \in DOMAIN tabla' /\ tabla'[i].persona = tabla[i].persona,
         \A i \in DOMAIN tabla' : tabla'[i].valores = i, SinHueco'
  PROVE  InvPaneles'
<1> USE DEF InvPaneles
<1>1. TipoPaneles'
  BY PedidosAtendidos DEF TipoPaneles
<1>2. PanelSano'
  BY PedidosAtendidos DEF PanelSano
<1>3. \A x \in pedidos' : PedidoSano(x)'
  BY PedidosAtendidos DEF PedidoSano
<1> QED BY <1>1, <1>2, <1>3

\* A call that is refused, or changes no row of the table.
LEMMA SinEfectoPaneles ==
  ASSUME InvPaneles, NEW c \in pedidos, Administrar!Atender(c), tabla' = tabla,
         c.tipo = "alta" => Administrar!Efectos(c) = {}
  PROVE  InvPaneles'
<1>1. panel' \in Montados /\ PanelSano'
  BY PedidosAtendidos DEF InvPaneles, TipoPaneles, PanelSano
<1>2. \A x \in pedidos' : x \in Pedidos /\ PedidoSano(x) /\ (Condena(x) => Condenada(x.fila))
  BY PedidosAtendidos
<1> QED BY <1>1, <1>2, QuietoPaneles

\* A creation and the alta of a traslado insert a row of their person.
LEMMA InsertarPaneles ==
  ASSUME InvPaneles, NEW c \in pedidos, Administrar!Atender(c), c.tipo \in {"crear", "alta"},
         NEW n \in Ids \ DOMAIN tabla, tabla' = Administrar!Insertada(c, n)
  PROVE  InvPaneles'
<1> USE DEF InvPaneles
<1> DEFINE f == [persona |-> c.persona, grupo |-> c.grupo, valores |-> IF c.origen = Nulo THEN n ELSE c.origen, fin |-> Nulo]
<1>1. c \in Pedidos /\ PedidoSano(c)
  BY PedidosAtendidos
<1>2. c.origen = Nulo /\ c.persona \in Personas /\ c.grupo \in Grupos
        /\ (c.tipo = "alta" => c.fila \in DOMAIN tabla /\ c.persona = tabla[c.fila].persona)
  BY <1>1 DEF PedidoSano, TipoPaneles, TipoTabla, Filas
<1>3. f \in Filas /\ f.persona = c.persona /\ f.valores = n /\ f.fin = Nulo
  BY <1>2 DEF Filas
<1>4. tabla' = [i \in DOMAIN tabla \cup {n} |-> IF i = n THEN f ELSE tabla[i]]
  BY DEF Administrar!Insertada
<1> HIDE DEF f
<1>5. /\ DOMAIN tabla' = DOMAIN tabla \cup {n} /\ tabla'[n] = f
      /\ \A i \in DOMAIN tabla : tabla'[i] = tabla[i]
  BY <1>4
<1>6. TipoTabla'
  BY <1>3, <1>4, <1>5 DEF TipoPaneles, TipoTabla
<1>7. \A i \in DOMAIN tabla' : tabla'[i].valores = i
  BY <1>3, <1>5
<1>8. \A i : Condenada(i)' => Condenada(i) \/ (i = c.fila /\ c.tipo = "alta")
  BY PedidosAtendidos DEF Condenada
<1>9. ~Condenada(n)' /\ Suya(n, c.persona)'
  <2>1. ASSUME NEW x \in pedidos, Condena(x) PROVE x.fila # n
    BY <2>1 DEF PedidoSano, Condena
  <2>2. ~Condenada(n)
    BY <2>1 DEF Condenada
  <2> QED BY <1>2, <1>3, <1>5, <1>8, <2>2 DEF Suya
<1>10. SinHueco'
  <2> SUFFICES ASSUME NEW u \in Personas, NEW j \in Ids, Suya(j, u)' PROVE \E i \in Ids : Suya(i, u)' /\ Conserva(i)'
    BY DEF SinHueco
  <2>1. CASE u = c.persona
    BY <1>3, <1>5, <1>9, <2>1 DEF Conserva
  <2>2. CASE u # c.persona
    <3>1. Suya(j, u)
      BY <1>3, <1>5, <2>2 DEF Suya
    <3>2. PICK i \in Ids : Suya(i, u) /\ Conserva(i)
      BY <3>1 DEF SinHueco
    <3>3. ~(i = c.fila /\ c.tipo = "alta")
      BY <1>2, <2>2, <3>2 DEF Suya
    <3>4. Suya(i, u)' /\ Conserva(i)'
      BY <1>5, <1>8, <3>2, <3>3 DEF Suya, Conserva
    <3> QED BY <3>4
  <2> QED BY <2>1, <2>2
<1> QED BY <1>5, <1>6, <1>7, <1>10, EfectoPaneles

\* A change of a row that exists.
LEMMA CambiarPaneles ==
  ASSUME InvPaneles, NEW c \in pedidos, Administrar!Atender(c), c.fila \in DOMAIN tabla, tabla[c.fila].fin = Nulo,
         \/ c.tipo = "actualizar" /\ tabla' = [tabla EXCEPT ![c.fila].valores = c.origen]
         \/ c.tipo \in {"eliminar", "baja"} /\ tabla' = [tabla EXCEPT ![c.fila].fin = c.tipo]
  PROVE  InvPaneles'
<1> USE DEF InvPaneles
<1> DEFINE k == c.fila
           a == tabla[k]
           f == IF c.tipo = "actualizar" THEN [a EXCEPT !.valores = c.origen] ELSE [a EXCEPT !.fin = c.tipo]
<1>1. c \in Pedidos /\ PedidoSano(c) /\ k \in DOMAIN tabla /\ a \in Filas /\ a.valores = k /\ k \in Ids /\ a.fin = Nulo
  BY PedidosAtendidos DEF TipoPaneles, TipoTabla
<1>2. c.tipo = "actualizar" => c.origen = k
  BY <1>1 DEF PedidoSano
<1>3. tabla' = [tabla EXCEPT ![k] = f]
  OBVIOUS
<1>4. /\ f \in Filas /\ f.persona = a.persona /\ f.valores = k
      /\ c.tipo = "actualizar" => f.fin = Nulo
      /\ c.tipo # "actualizar" => f.fin = c.tipo
  BY <1>1, <1>2 DEF Filas
<1> HIDE DEF f, a, k
<1>5. /\ DOMAIN tabla' = DOMAIN tabla /\ tabla'[k] = f
      /\ \A i \in DOMAIN tabla : i # k => tabla'[i] = tabla[i]
  BY <1>1, <1>3
<1>6. TipoTabla'
  BY <1>1, <1>3, <1>4, <1>5 DEF TipoPaneles, TipoTabla
<1>7. (\A i \in DOMAIN tabla : i \in DOMAIN tabla' /\ tabla'[i].persona = tabla[i].persona) /\ tabla[k].persona = a.persona
  BY <1>4, <1>5 DEF a
<1>8. \A i \in DOMAIN tabla' : tabla'[i].valores = i
  BY <1>4, <1>5
<1>9. \A i : Condenada(i)' => Condenada(i)
  BY PedidosAtendidos DEF Condenada
<1>10. ASSUME NEW i \in DOMAIN tabla, Conserva(i) PROVE Conserva(i)'
  <2>1. CASE i # k
    BY <1>5, <1>9, <1>10, <2>1 DEF Conserva
  <2>2. CASE i = k
    <3>1. c.tipo = "baja" => Condenada(k)
      BY DEF Condenada, Condena, k
    <3>2. Conserva(k) /\ tabla[k].fin = Nulo
      BY <1>1, <1>10, <2>2 DEF a
    <3>3. c.tipo # "baja" /\ ~Condenada(k)
      BY <3>1, <3>2, ConstantesPantallas DEF Conserva
    <3> QED BY <1>4, <1>5, <1>9, <2>2, <3>3 DEF Conserva
  <2> QED BY <2>1, <2>2
<1>11. SinHueco'
  <2>1. \A i, u : Suya(i, u)' <=> Suya(i, u)
    BY <1>5, <1>7 DEF Suya
  <2>2. \A i, u : Suya(i, u) => i \in DOMAIN tabla
    BY DEF Suya
  <2> QED BY <1>10, <2>1, <2>2 DEF SinHueco
<1> QED BY <1>6, <1>7, <1>8, <1>11, EfectoPaneles

\* Every effect is one of those.
LEMMA AtenderPaneles ==
  ASSUME InvPaneles, NEW c \in pedidos, Administrar!Atender(c)
  PROVE  InvPaneles'
<1>1. tabla' \in IF Administrar!Efectos(c) = {} THEN {tabla} ELSE Administrar!Efectos(c)
  BY DEF Administrar!Atender
<1>2. CASE Administrar!Efectos(c) = {}
  BY <1>1, <1>2, SinEfectoPaneles
<1>3. CASE Administrar!Efectos(c) # {} /\ c.tipo \in {"crear", "alta"}
  <2> DEFINE n == CHOOSE x \in Ids \ DOMAIN tabla : TRUE
  <2>1. n \in Ids \ DOMAIN tabla
    BY <1>3 DEF Administrar!Atender, InvPaneles, TipoPaneles, TipoTabla
  <2>2. Administrar!Efectos(c) = IF Administrar!Repetida(c) THEN {} ELSE {Administrar!Insertada(c, n)}
    BY <1>3 DEF Administrar!Efectos
  <2> HIDE DEF n
  <2>3. tabla' = Administrar!Insertada(c, n)
    BY <1>1, <1>3, <2>2
  <2> QED BY <1>3, <2>1, <2>3, InsertarPaneles
<1>4. CASE Administrar!Efectos(c) # {} /\ c.tipo \in {"actualizar", "eliminar", "baja"}
  <2>1. Administrar!Efectos(c) = IF c.fila \notin Administrar!Vivas THEN {}
                                 ELSE IF c.tipo = "actualizar" THEN {[tabla EXCEPT ![c.fila].valores = c.origen]}
                                 ELSE {[tabla EXCEPT ![c.fila].fin = c.tipo]}
    BY <1>4 DEF Administrar!Efectos
  <2>2. c.fila \in DOMAIN tabla /\ tabla[c.fila].fin = Nulo
    BY <1>4, <2>1 DEF Administrar!Vivas
  <2>3. \/ c.tipo = "actualizar" /\ tabla' = [tabla EXCEPT ![c.fila].valores = c.origen]
        \/ c.tipo \in {"eliminar", "baja"} /\ tabla' = [tabla EXCEPT ![c.fila].fin = c.tipo]
    BY <1>1, <1>4, <2>1
  <2> QED BY <2>2, <2>3, CambiarPaneles
<1>5. CASE c.tipo \notin {"crear", "alta", "actualizar", "eliminar", "baja"}
  <2>1. Administrar!Efectos(c) = {tabla}
    BY <1>5 DEF Administrar!Efectos
  <2> QED BY <1>1, <1>5, <2>1, SinEfectoPaneles
<1> QED BY <1>2, <1>3, <1>4, <1>5
-----------------------------------------------------------------------------
(* The answers of a panel *)

\* What a handler leaves behind: its call is over, and the next one of a traslado is already due.
LEMMA PedidosSeguidos ==
  ASSUME InvPaneles, NEW c \in pedidos, c.fase # "huerfana", NEW bien \in BOOLEAN, NEW resto,
         bien => c.fase = "vuelta" /\ c.ok,
         resto \subseteq {[c EXCEPT !.fase = "huerfana"]}, Administrar!Seguir(c, bien, resto)
  PROVE  \A x \in pedidos' : x \in Pedidos /\ PedidoSano(x) /\ (Condena(x) => Condenada(x.fila))
<1>1. c \in Pedidos /\ PedidoSano(c) /\ c.filtro \in Grupos \cup {Nulo} /\ c.fila \in IdsONulo
  BY DEF InvPaneles, TipoPaneles, Pedidos
<1>2. ASSUME NEW x \in Administrar!Siguientes(c, bien)
      PROVE  x \in Pedidos /\ PedidoSano(x) /\ (Condena(x) => Condenada(x.fila))
  <2>1. CASE x \in Administrar!Listado(c)
    <3>1. x \in Administrar!Recargar(panel.de, c.filtro)
      BY <2>1 DEF Administrar!Listado
    <3> QED BY <1>1, <3>1, RecargarSano
  <2>2. CASE c.tipo = "alta" /\ bien /\ x = [Administrar!Pedido("baja", c.fila, c.filtro) EXCEPT !.vinculo = c.vinculo]
    <3> DEFINE k == Administrar!Pedido("baja", c.fila, c.filtro)
    <3>1. k \in Pedidos /\ k.tipo = "baja" /\ k.fila = c.fila
      BY <1>1, PedidoNuevo
    <3> HIDE DEF k
    <3>2. x \in Pedidos /\ x.tipo = "baja" /\ x.fila = c.fila
      BY <1>1, <2>2, <3>1 DEF Pedidos, k
    <3>3. c.fila \in DOMAIN tabla /\ Condenada(c.fila)
      BY <1>1, <2>2 DEF PedidoSano, Condenada, Condena
    <3> QED BY <3>2, <3>3 DEF PedidoSano
  <2> QED BY <1>2, <2>1, <2>2 DEF Administrar!Siguientes, Administrar!SigueBaja
<1>3. pedidos' = (pedidos \ {c}) \cup Administrar!Siguientes(c, bien) \cup resto
  BY DEF Administrar!Seguir
<1>4. \A x \in resto : x \in Pedidos /\ PedidoSano(x) /\ (Condena(x) => Condenada(x.fila))
  BY PedidoHeredado
<1>5. \A x \in pedidos : x \in Pedidos /\ PedidoSano(x) /\ (Condena(x) => Condenada(x.fila))
  BY DEF InvPaneles, TipoPaneles, Condenada
<1> QED BY <1>2, <1>3, <1>4, <1>5

\* The panel after an answer: pieces of it are closed, and none is opened.
LEMMA PanelSeguido ==
  ASSUME InvPaneles, NEW c \in pedidos, NEW bien \in BOOLEAN, NEW resto, Administrar!Seguir(c, bien, resto)
  PROVE  panel' \in Montados /\ PanelSano' /\ tabla' = tabla
<1>1. panel \in Montados /\ tabla' = tabla /\ PanelSano
  BY DEF InvPaneles, TipoPaneles, Administrar!Seguir
<1>2. Administrar!SinForma \in Formas
  BY DEF Administrar!SinForma, Formas, IdsONulo
<1>3. ASSUME NEW f \in {panel.forma, Administrar!SinForma}, NEW d \in {panel.dialogo, Nulo}
      PROVE  f \in Formas /\ d \in [tipo : Dialogos, fila : IdsONulo] \cup {Nulo}
  BY <1>1, <1>2, <1>3 DEF Montados
<1>4. ASSUME panel' \in Montados, panel'.filas = panel.filas, panel'.traslado = panel.traslado,
             panel'.forma \in {panel.forma, Administrar!SinForma}
      PROVE  PanelSano'
  BY <1>1, <1>4, PanelIgual DEF PanelSano
<1>5. CASE Administrar!TrasForma(c, bien)
  <2>1. PICK b \in BOOLEAN : b = (panel.enviando /\ ~Administrar!Vivo(c))
    OBVIOUS
  <2>2. PICK f : f = IF bien /\ c.vinculo # "nadie" THEN Administrar!SinForma ELSE panel.forma
    OBVIOUS
  <2>3. PICK d : d = IF bien /\ panel.de.ficha /\ c.vinculo # "nadie" THEN Nulo ELSE panel.dialogo
    OBVIOUS
  <2>4. panel' = [panel EXCEPT !.enviando = b, !.forma = f, !.dialogo = d]
    BY <1>5, <2>1, <2>2, <2>3 DEF Administrar!TrasForma
  <2>5. f \in {panel.forma, Administrar!SinForma} /\ f \in Formas /\ d \in [tipo : Dialogos, fila : IdsONulo] \cup {Nulo}
    BY <1>3, <2>2, <2>3
  <2>6. panel' \in Montados /\ panel'.filas = panel.filas /\ panel'.forma = f /\ panel'.traslado = panel.traslado
    BY <1>1, <2>1, <2>4, <2>5 DEF Montados
  <2> QED BY <1>1, <1>4, <2>5, <2>6
<1>6. CASE Administrar!TrasDialogo(c, bien)
  <2>1. PICK b \in BOOLEAN : b = (panel.procesando /\ ~Administrar!Vivo(c))
    OBVIOUS
  <2>2. PICK f : f = IF bien /\ panel.de.ficha /\ c.vinculo # "nadie" THEN Administrar!SinForma ELSE panel.forma
    OBVIOUS
  <2>3. PICK d : d = IF bien /\ c.vinculo # "nadie" THEN Nulo ELSE panel.dialogo
    OBVIOUS
  <2>4. panel' = [panel EXCEPT !.procesando = b, !.dialogo = d, !.forma = f]
    BY <1>6, <2>1, <2>2, <2>3 DEF Administrar!TrasDialogo
  <2>5. f \in {panel.forma, Administrar!SinForma} /\ f \in Formas /\ d \in [tipo : Dialogos, fila : IdsONulo] \cup {Nulo}
    BY <1>3, <2>2, <2>3
  <2>6. panel' \in Montados /\ panel'.filas = panel.filas /\ panel'.forma = f /\ panel'.traslado = panel.traslado
    BY <1>1, <2>1, <2>4, <2>5 DEF Montados
  <2> QED BY <1>1, <1>4, <2>5, <2>6
<1>7. CASE Administrar!TrasAlta(c, bien)
  <2>1. PICK b \in BOOLEAN : b = (panel.trasladando /\ (Administrar!SigueBaja(bien) \/ ~Administrar!Vivo(c)))
    OBVIOUS
  <2>2. panel' = [panel EXCEPT !.trasladando = b]
    BY <1>7, <2>1 DEF Administrar!TrasAlta
  <2>3. panel' \in Montados /\ panel'.filas = panel.filas /\ panel'.forma = panel.forma /\ panel'.traslado = panel.traslado
    BY <1>1, <2>2 DEF Montados
  <2> QED BY <1>1, <2>3, PanelIgual DEF PanelSano
<1>8. CASE Administrar!TrasBaja(c, bien)
  <2>1. CASE panel' = panel
    BY <1>1, <2>1 DEF PanelSano
  <2>2. CASE panel' = [panel EXCEPT !.trasladando = FALSE, !.traslado = Nulo]
    <3>1. panel' \in Montados /\ panel'.filas = panel.filas /\ panel'.forma = panel.forma /\ panel'.traslado = Nulo
      BY <1>1, <2>2 DEF Montados
    <3> QED BY <1>1, <3>1, PanelIgual DEF PanelSano
  <2> QED BY <1>8, <2>1, <2>2 DEF Administrar!TrasBaja
<1> QED BY <1>1, <1>5, <1>6, <1>7, <1>8 DEF Administrar!Seguir

\* The answer, or the rejection of the fetch.
LEMMA SeguirPaneles ==
  ASSUME InvPaneles, NEW c \in pedidos, Administrar!Responder(c) \/ Administrar!Cortar(c)
  PROVE  InvPaneles'
<1>1. ASSUME NEW bien \in BOOLEAN, NEW resto, resto \subseteq {[c EXCEPT !.fase = "huerfana"]},
             bien => c.fase = "vuelta" /\ c.ok, c.fase # "huerfana", Administrar!Seguir(c, bien, resto)
      PROVE  InvPaneles'
  BY <1>1, PedidosSeguidos, PanelSeguido, QuietoPaneles
<1>2. CASE Administrar!Responder(c)
  <2>1. PICK b \in BOOLEAN : b = c.ok
    BY DEF InvPaneles, TipoPaneles, Pedidos
  <2>2. c.fase = "vuelta" /\ Administrar!Seguir(c, b, {})
    BY <1>2, <2>1 DEF Administrar!Responder
  <2>3. b => c.ok
    BY <2>1
  <2> QED BY <1>1, <2>2, <2>3
<1>3. CASE Administrar!Cortar(c)
  <2>1. PICK resto \in {{}, {[c EXCEPT !.fase = "huerfana"]}} : Administrar!Seguir(c, FALSE, resto)
    BY <1>3 DEF Administrar!Cortar
  <2>2. c.fase # "huerfana" /\ resto \subseteq {[c EXCEPT !.fase = "huerfana"]}
    BY <1>3 DEF Administrar!Cortar
  <2> QED BY <1>1, <2>1, <2>2
<1> QED BY <1>2, <1>3

\* A listing shows rows that exist.
LEMMA ListarPaneles ==
  ASSUME InvPaneles, NEW c \in pedidos, Administrar!Listar(c)
  PROVE  InvPaneles'
<1>1. PICK fs \in {{i \in Administrar!Vivas : c.filtro \in {Nulo, tabla[i].grupo}}, {}, panel.filas} :
        panel' = [panel EXCEPT !.filas = fs]
  BY DEF Administrar!Listar
<1>2. panel \in Montados /\ tabla' = tabla /\ pedidos' = pedidos \ {c}
  BY DEF InvPaneles, TipoPaneles, Administrar!Listar
<1>3. fs \subseteq DOMAIN tabla /\ fs \subseteq Ids
  BY <1>1 DEF Administrar!Vivas, InvPaneles, PanelSano, TipoPaneles, TipoTabla
<1>4. panel' \in Montados /\ panel'.filas = fs /\ panel'.forma = panel.forma /\ panel'.traslado = panel.traslado
  BY <1>1, <1>2, <1>3 DEF Montados
<1>5. PanelSano'
  BY <1>2, <1>3, <1>4, PanelIgual DEF InvPaneles
<1>6. \A x \in pedidos' : x \in Pedidos /\ PedidoSano(x) /\ (Condena(x) => Condenada(x.fila))
  BY <1>2 DEF InvPaneles, TipoPaneles, Condenada
<1> QED BY <1>2, <1>4, <1>5, <1>6, QuietoPaneles

\* The invariant of the panels holds at the start, for the panels of any role.
LEMMA PanelesInicial ==
  ASSUME NEW r \in DOMAIN Abiertos, Administrar!InitPaneles(Abiertos[r])
  PROVE  InvPaneles
<1>1. PICK de \in Abiertos[r] : panel = Administrar!Montado(de) /\ pedidos = Administrar!Recargar(de, Nulo)
  BY DEF Administrar!InitPaneles
<1>2. de \in Piezas
  BY <1>1, ConstantesPantallas
<1>3. panel \in Montados /\ panel.filas = {} /\ panel.forma = Administrar!SinForma /\ panel.traslado = Nulo
  BY <1>1, <1>2 DEF Administrar!Montado, Administrar!SinForma, Montados, Formas, IdsONulo
<1>4. PanelSano
  BY <1>3 DEF PanelSano, Administrar!SinForma
<1>5. \A c \in pedidos : c \in Pedidos /\ PedidoSano(c) /\ ~Condena(c)
  BY <1>1, RecargarSano
<1>6. tabla = [i \in DOMAIN Inicial |-> [persona |-> Inicial[i].persona, grupo |-> Inicial[i].grupo, valores |-> i, fin |-> Nulo]]
  BY DEF Administrar!InitPaneles
<1>7. \A i \in DOMAIN Inicial : Inicial[i].persona \in Personas /\ Inicial[i].grupo \in Grupos /\ i \in Ids
  BY ConstantesPantallas
<1>8. TipoTabla
  BY <1>6, <1>7 DEF TipoTabla, Filas
<1>9. \A i \in DOMAIN tabla : tabla[i].valores = i /\ tabla[i].fin = Nulo
  BY <1>6
<1>10. SinHueco
  BY <1>5, <1>9 DEF SinHueco, Suya, Conserva, Condenada
<1> QED BY <1>3, <1>4, <1>5, <1>8, <1>9, <1>10 DEF InvPaneles, TipoPaneles

\* Every step of a panel, of its user, of the server and of its handlers, keeps its invariant.
LEMMA PasoPaneles == ASSUME InvPaneles, Administrar!NextPaneles PROVE InvPaneles'
<1>1. CASE Administrar!AbrirCrear \/ \E i \in Ids : Administrar!AbrirEditar(i)
  BY <1>1, AbrirPaneles DEF Administrar!AbrirCrear, Administrar!AbrirEditar, IdsONulo
<1>2. CASE Administrar!Remontar \/ Administrar!RecargarPagina
  BY <1>2, RemontarPaneles
<1>3. CASE Administrar!CancelarForma \/ (\E g \in Grupos \cup {Nulo} : Administrar!Filtrar(g))
  BY <1>3, CancelarPaneles, FiltrarPaneles
<1>4. CASE \/ Administrar!CancelarDialogo \/ Administrar!ConfirmarDialogo
           \/ \E i \in Ids : \E t \in panel.de.dialogos : Administrar!AbrirDialogo(t, i)
  BY <1>4, DialogoPaneles
<1>5. CASE Administrar!ConfirmarPasoUno \/ Administrar!CancelarTraslado \/ \E i \in Ids : Administrar!PedirTraslado(i)
  BY <1>5, TrasladoPaneles
<1>6. CASE \E g \in Grupos : Administrar!Trasladar(g) \/ \E u \in Personas : Administrar!Enviar(u, g)
  BY <1>6, TrasladarPaneles, EnviarPaneles
<1>7. CASE \E c \in pedidos : Administrar!Atender(c)
  BY <1>7, AtenderPaneles
<1>8. CASE \E c \in pedidos : Administrar!Responder(c) \/ Administrar!Cortar(c)
  BY <1>8, SeguirPaneles
<1>9. CASE \E c \in pedidos : Administrar!Listar(c)
  BY <1>9, ListarPaneles
<1> QED BY <1>1, <1>2, <1>3, <1>4, <1>5, <1>6, <1>7, <1>8, <1>9 DEF Administrar!NextPaneles

\* That no panel does harm follows from it.
LEMMA PanelesSinDanio == InvPaneles => Administrar!TrasladoSinHueco /\ Administrar!EdicionDeSuFila
<1> SUFFICES ASSUME InvPaneles PROVE Administrar!TrasladoSinHueco /\ Administrar!EdicionDeSuFila
  OBVIOUS
<1> USE DEF InvPaneles
<1>1. Administrar!EdicionDeSuFila
  BY DEF Administrar!EdicionDeSuFila
<1>2. Administrar!TrasladoSinHueco
  <2> SUFFICES ASSUME NEW u \in Personas, NEW j \in DOMAIN tabla, tabla[j].persona = u
               PROVE  \E i \in DOMAIN tabla : tabla[i].persona = u /\ tabla[i].fin \in {Nulo, "eliminar"}
    BY DEF Administrar!TrasladoSinHueco
  <2>1. Suya(j, u) /\ j \in Ids
    BY DEF Suya, TipoPaneles, TipoTabla
  <2>2. PICK i \in Ids : Suya(i, u) /\ Conserva(i)
    BY <2>1 DEF SinHueco
  <2> QED BY <2>2 DEF Suya, Conserva
<1> QED BY <1>1, <1>2
-----------------------------------------------------------------------------
(* The asistente *)

Segmentos == [publico : Publicos \cup {Nulo}, alcance : Alcances \cup {Nulo}, ids : SUBSET (Aulas \cup Grados \cup Niveles)]
Completos == {s \in Segmentos : Completa(s)}
Contados  == {Calcular(escuela, s) : s \in Completos}
Cuentas   == [seg : Completos, cancelado : BOOLEAN,
              respuesta : {Nulo} \cup [ok : {FALSE}] \cup [ok : {TRUE}, padron : Contados]]

Asistentes == [paso : {1, 2, 3, 4}, tipo : Tipos \cup {Nulo}, seg : Segmentos, enviando : BOOLEAN, creado : BOOLEAN]
Conteos    == [cargando : BOOLEAN, datos : Contados \cup {Nulo}, error : BOOLEAN, temporizador : BOOLEAN]

TipoAsistente ==
  /\ escuela \in Escuelas /\ asistente \in Asistentes /\ conteo \in Conteos
  /\ peticiones \subseteq Cuentas
  /\ envio \in [tipo : Tipos \cup {Nulo}, seg : Segmentos, fase : {"ida", "creado", "rechazado"}] \cup {Nulo}

\* A representante_aula past the first step is by aulas.
PorAulas(d) == d.tipo = "representante_aula" => d.seg.alcance = "aulas"

\* A count of the segmentation on the screen, and the request that asks for it.
CuentaDe(d, s) == d = Calcular(escuela, s) /\ Completa(s) /\ ~Rechazada(s, Nulo)
PeticionSana(p) ==
  /\ ~p.cancelado => p.seg = asistente.seg
  /\ p.respuesta # Nulo /\ p.respuesta.ok => p.respuesta.padron = Calcular(escuela, p.seg) /\ ~Rechazada(p.seg, Nulo)

ConteoSano ==
  /\ conteo.temporizador => Completa(asistente.seg)
  /\ ~conteo.temporizador /\ ~conteo.cargando /\ conteo.datos # Nulo => CuentaDe(conteo.datos, asistente.seg)
  /\ \A p \in peticiones : PeticionSana(p)

InvAsistente ==
  /\ TipoAsistente /\ ConteoSano /\ BorradorValido
  /\ asistente.paso # 1 => PorAulas(asistente)
  /\ envio # Nulo => PorAulas(envio)
-----------------------------------------------------------------------------
(* The steps of the asistente *)

\* The effect of usePadronEnVivo(): another segmentation cancels the counts of the previous one.
LEMMA EfectoSano ==
  ASSUME InvAsistente, NEW s \in Segmentos, Efecto(s), asistente'.seg = s, escuela' = escuela
  PROVE  conteo' \in Conteos' /\ peticiones' \subseteq Cuentas' /\ ConteoSano'
<1> USE DEF InvAsistente
<1>1. Contados' = Contados /\ Conteos' = Conteos /\ Cuentas' = Cuentas
  BY DEF Contados, Conteos, Cuentas
<1>2. conteo \in Conteos /\ peticiones \subseteq Cuentas
  BY DEF TipoAsistente
<1>3. CASE s = asistente.seg
  <2>1. UNCHANGED <<conteo, peticiones>> /\ asistente'.seg = asistente.seg
    BY <1>3 DEF Efecto
  <2>2. \A p : PeticionSana(p) => PeticionSana(p)'
    BY <2>1 DEF PeticionSana
  <2>3. ConteoSano'
    BY <2>1, <2>2 DEF ConteoSano, CuentaDe
  <2> QED BY <1>1, <1>2, <2>1, <2>3
<1>4. CASE s # asistente.seg
  <2>1. /\ peticiones' = {[p EXCEPT !.cancelado = TRUE] : p \in peticiones}
        /\ conteo' = IF Completa(s) THEN [conteo EXCEPT !.temporizador = TRUE] ELSE EstadoVacio
    BY <1>4 DEF Efecto
  <2>2. ASSUME NEW p \in peticiones
        PROVE  [p EXCEPT !.cancelado = TRUE] \in Cuentas /\ PeticionSana([p EXCEPT !.cancelado = TRUE])'
    <3> DEFINE q == [p EXCEPT !.cancelado = TRUE]
    <3>1. PeticionSana(p) /\ p \in Cuentas
      BY <1>2 DEF ConteoSano
    <3>2. q \in Cuentas /\ q.cancelado /\ q.seg = p.seg /\ q.respuesta = p.respuesta
      BY <3>1 DEF Cuentas
    <3> HIDE DEF q
    <3>3. PeticionSana(q)'
      BY <3>1, <3>2 DEF PeticionSana
    <3> QED BY <3>2, <3>3 DEF q
  <2>3. CASE Completa(s)
    <3>1. conteo' \in Conteos /\ conteo'.temporizador
      BY <1>2, <2>1, <2>3 DEF Conteos
    <3>2. ConteoSano'
      BY <2>1, <2>2, <2>3, <3>1 DEF ConteoSano
    <3> QED BY <1>1, <2>1, <2>2, <3>1, <3>2
  <2>4. CASE ~Completa(s)
    <3>1. conteo' \in Conteos /\ ~conteo'.temporizador /\ conteo'.datos = Nulo
      BY <2>1, <2>4 DEF Conteos, EstadoVacio
    <3>2. ConteoSano'
      BY <2>1, <2>2, <3>1 DEF ConteoSano
    <3> QED BY <1>1, <2>1, <2>2, <3>1, <3>2
  <2> QED BY <2>3, <2>4
<1> QED BY <1>3, <1>4

\* A step of the reducer.
LEMMA PonerAsistente ==
  ASSUME InvAsistente, NEW s \in Segmentos, NEW a \in Asistentes, Poner(s, a),
         a.paso # 1 /\ a.tipo = "representante_aula" => s.alcance = "aulas"
  PROVE  InvAsistente'
<1>1. Efecto(s) /\ asistente' = [a EXCEPT !.seg = s] /\ UNCHANGED <<escuela, envio, borradores>>
  BY DEF Poner
<1>2. asistente' \in Asistentes /\ asistente'.seg = s /\ asistente'.tipo = a.tipo /\ asistente'.paso = a.paso
  BY <1>1 DEF Asistentes
<1>3. conteo' \in Conteos' /\ peticiones' \subseteq Cuentas' /\ ConteoSano'
  BY <1>1, <1>2, EfectoSano
<1>4. TipoAsistente'
  BY <1>1, <1>2, <1>3 DEF InvAsistente, TipoAsistente
<1>5. BorradorValido'
  BY <1>1 DEF InvAsistente, BorradorValido
<1>6. /\ asistente'.paso # 1 => PorAulas(asistente)'
      /\ envio' # Nulo => PorAulas(envio)'
  BY <1>1, <1>2 DEF InvAsistente, PorAulas
<1> QED BY <1>3, <1>4, <1>5, <1>6 DEF InvAsistente

\* The four steps: a representante_aula is taken to the aulas, and stays there.
LEMMA PasosAsistente ==
  ASSUME InvAsistente,
         \/ Siguiente \/ Anterior \/ (\E t \in Tipos : ElegirTipo(t)) \/ (\E p \in Publicos : ElegirPublico(p))
         \/ (\E x \in Alcances : ElegirAlcance(x)) \/ \E id \in Visibles : Marcar(id)
  PROVE  InvAsistente'
<1> DEFINE a == asistente
           s == asistente.seg
<1>1. a \in Asistentes /\ s \in Segmentos /\ (a.paso # 1 => PorAulas(a))
  BY DEF InvAsistente, TipoAsistente, Asistentes
<1>2. ASSUME NEW n \in {1, 2, 3, 4}, Cambiar(n), n = 2 \/ n = 1 \/ a.paso # 1 PROVE InvAsistente'
  <2> DEFINE b == [a EXCEPT !.paso = n]
             z == IF n = 2 THEN Forzada(s) ELSE s
  <2>1. b \in Asistentes /\ b.tipo = a.tipo /\ b.paso = n
    BY <1>1 DEF Asistentes
  <2>2. Forzada(s) \in Segmentos /\ (a.tipo = "representante_aula" => Forzada(s).alcance = "aulas")
    BY <1>1 DEF Forzada, Segmentos, Alcances
  <2>3. z \in Segmentos /\ (n # 1 /\ a.tipo = "representante_aula" => z.alcance = "aulas")
    BY <1>1, <1>2, <2>2 DEF PorAulas
  <2>4. Poner(z, b)
    BY <1>2 DEF Cambiar
  <2> HIDE DEF z, b
  <2> QED BY <2>1, <2>3, <2>4, PonerAsistente
<1>3. CASE Siguiente
  BY <1>1, <1>2, <1>3 DEF Siguiente, Asistentes
<1>4. CASE Anterior
  BY <1>1, <1>2, <1>4 DEF Anterior, Asistentes
<1>5. ASSUME NEW t \in Tipos, ElegirTipo(t) PROVE InvAsistente'
  <2>1. PICK b : b = [a EXCEPT !.tipo = t]
    OBVIOUS
  <2>2. b \in Asistentes /\ b.paso = 1
    BY <1>1, <1>5, <2>1 DEF Asistentes, ElegirTipo, EnPasoDe
  <2>3. SegmentacionLimpia \in Segmentos
    BY DEF SegmentacionLimpia, Segmentos
  <2>4. Poner(SegmentacionLimpia, b)
    BY <1>5, <2>1 DEF ElegirTipo
  <2> QED BY <2>2, <2>3, <2>4, PonerAsistente
<1>6. ASSUME NEW p \in Publicos, ElegirPublico(p) PROVE InvAsistente'
  <2>1. PICK z : z = [s EXCEPT !.publico = p]
    OBVIOUS
  <2>2. z \in Segmentos /\ z.alcance = s.alcance
    BY <1>1, <2>1 DEF Segmentos
  <2>3. Poner(z, a)
    BY <1>6, <2>1 DEF ElegirPublico
  <2> QED BY <1>1, <2>2, <2>3, PonerAsistente DEF PorAulas
<1>7. ASSUME NEW x \in Alcances, ElegirAlcance(x) PROVE InvAsistente'
  <2>1. PICK z : z = [s EXCEPT !.alcance = x, !.ids = {}]
    OBVIOUS
  <2>2. z \in Segmentos /\ z.alcance = x
    BY <1>1, <2>1 DEF Segmentos
  <2>3. Poner(z, a)
    BY <1>7, <2>1 DEF ElegirAlcance
  <2>4. a.tipo = "representante_aula" => x = "aulas"
    <3> DEFINE y == [s EXCEPT !.alcance = x]
    <3>1. y \in Segmentos /\ y.alcance = x
      BY <1>1 DEF Segmentos
    <3>2. Forzada(y).alcance = x
      BY <1>7 DEF ElegirAlcance
    <3> HIDE DEF y
    <3> QED BY <3>1, <3>2 DEF Forzada, Segmentos
  <2> QED BY <1>1, <2>2, <2>3, <2>4, PonerAsistente
<1>8. ASSUME NEW id \in Visibles, Marcar(id) PROVE InvAsistente'
  <2>1. PICK ids : ids = IF s.alcance = "nivel" THEN {id} ELSE IF id \in s.ids THEN s.ids \ {id} ELSE s.ids \cup {id}
    OBVIOUS
  <2>2. PICK z : z = [s EXCEPT !.ids = ids]
    OBVIOUS
  <2>3. id \in Aulas \cup Grados \cup Niveles
    BY <1>8 DEF Marcar, Idos
  <2>4. ids \in SUBSET (Aulas \cup Grados \cup Niveles)
    BY <1>1, <2>1, <2>3 DEF Segmentos
  <2>5. z \in Segmentos /\ z.alcance = s.alcance
    BY <1>1, <2>2, <2>4 DEF Segmentos
  <2>6. Poner(z, a)
    BY <1>8, <2>1, <2>2 DEF Marcar
  <2> QED BY <1>1, <2>5, <2>6, PonerAsistente DEF PorAulas
<1> QED BY <1>3, <1>4, <1>5, <1>6, <1>7, <1>8

\* A step of the counts.
LEMMA ContarAsistente ==
  ASSUME InvAsistente, UNCHANGED <<escuela, asistente, envio, borradores>>,
         conteo' \in Conteos, peticiones' \subseteq Cuentas, \A p \in peticiones' : PeticionSana(p),
         conteo'.temporizador => conteo.temporizador,
         ~conteo'.temporizador /\ ~conteo'.cargando /\ conteo'.datos # Nulo => CuentaDe(conteo'.datos, asistente.seg)
  PROVE  InvAsistente'
<1> USE DEF InvAsistente
<1>1. Contados' = Contados /\ Conteos' = Conteos /\ Cuentas' = Cuentas
  BY DEF Contados, Conteos, Cuentas
<1>2. TipoAsistente'
  BY <1>1 DEF TipoAsistente
<1>3. \A p \in peticiones' : PeticionSana(p)'
  BY DEF PeticionSana
<1>4. ~conteo'.temporizador /\ ~conteo'.cargando /\ conteo'.datos # Nulo => CuentaDe(conteo.datos, asistente.seg)'
  BY DEF CuentaDe
<1>5. ConteoSano'
  BY <1>3, <1>4 DEF ConteoSano
<1>6. BorradorValido' /\ (asistente'.paso # 1 => PorAulas(asistente)') /\ (envio' # Nulo => PorAulas(envio)')
  BY DEF BorradorValido, PorAulas
<1> QED BY <1>2, <1>5, <1>6

\* The timer fires, the server counts, and the answer or its loss reaches the hook.
LEMMA ConteosAsistente ==
  ASSUME InvAsistente, Disparar \/ \E p \in peticiones : Contar(p) \/ Entregada(p) \/ Perdida(p)
  PROVE  InvAsistente'
<1> USE DEF InvAsistente
<1>1. /\ conteo \in Conteos /\ peticiones \subseteq Cuentas /\ asistente.seg \in Segmentos
      /\ \A p \in peticiones : PeticionSana(p)
      /\ ~conteo.temporizador /\ ~conteo.cargando /\ conteo.datos # Nulo => CuentaDe(conteo.datos, asistente.seg)
  BY DEF TipoAsistente, Asistentes, ConteoSano
<1>2. CASE Disparar
  <2> DEFINE q == [seg |-> asistente.seg, cancelado |-> FALSE, respuesta |-> Nulo]
  <2>1. /\ conteo' = [conteo EXCEPT !.temporizador = FALSE, !.cargando = TRUE, !.error = FALSE]
        /\ peticiones' = peticiones \cup {q} /\ UNCHANGED <<escuela, asistente, envio, borradores>>
    BY <1>2 DEF Disparar
  <2>2. asistente.seg \in Completos
    BY <1>1, <1>2 DEF Disparar, ConteoSano, Completos
  <2>3. q \in Cuentas /\ PeticionSana(q)
    BY <2>2 DEF Cuentas, PeticionSana
  <2>4. conteo' \in Conteos /\ conteo'.cargando /\ ~conteo'.temporizador
    BY <1>1, <2>1 DEF Conteos
  <2> HIDE DEF q
  <2> QED BY <1>1, <2>1, <2>3, <2>4, ContarAsistente
<1>3. ASSUME NEW p \in peticiones, Contar(p) PROVE InvAsistente'
  <2>1. PICK r : r = IF Rechazada(p.seg, Nulo) THEN [ok |-> FALSE] ELSE [ok |-> TRUE, padron |-> Calcular(escuela, p.seg)]
    OBVIOUS
  <2>2. PICK q : q = [p EXCEPT !.respuesta = r]
    OBVIOUS
  <2>3. peticiones' = (peticiones \ {p}) \cup {q} /\ UNCHANGED <<escuela, asistente, conteo, envio, borradores>>
    BY <1>3, <2>1, <2>2 DEF Contar
  <2>4. p \in Cuentas /\ PeticionSana(p) /\ p.seg \in Completos
    BY <1>1 DEF Cuentas
  <2>5. Calcular(escuela, p.seg) \in Contados
    BY <2>4 DEF Contados
  <2>6. /\ r \in [ok : {FALSE}] \cup [ok : {TRUE}, padron : Contados]
        /\ r.ok => r.padron = Calcular(escuela, p.seg) /\ ~Rechazada(p.seg, Nulo)
    BY <2>1, <2>5
  <2>7. q \in Cuentas /\ q.seg = p.seg /\ q.cancelado = p.cancelado /\ q.respuesta = r
    BY <2>2, <2>4, <2>6 DEF Cuentas
  <2>8. PeticionSana(q)
    BY <2>4, <2>6, <2>7 DEF PeticionSana
  <2> QED BY <1>1, <2>3, <2>7, <2>8, ContarAsistente
<1>4. ASSUME NEW p \in peticiones, NEW bien \in BOOLEAN, Mostrar(p, bien), bien => p.respuesta # Nulo /\ p.respuesta.ok
      PROVE  InvAsistente'
  <2>1. peticiones' = peticiones \ {p} /\ UNCHANGED <<escuela, asistente, envio, borradores>>
    BY <1>4 DEF Mostrar
  <2>2. CASE p.cancelado
    <3>1. conteo' = conteo
      BY <1>4, <2>2 DEF Mostrar, Descartada
    <3> QED BY <1>1, <2>1, <3>1, ContarAsistente
  <2>3. CASE ~p.cancelado
    <3>1. PICK d : d = IF bien THEN p.respuesta.padron ELSE Nulo
      OBVIOUS
    <3>2. conteo' = [conteo EXCEPT !.cargando = FALSE, !.error = ~bien, !.datos = d]
      BY <1>4, <2>3, <3>1 DEF Mostrar, Descartada
    <3>3. p \in Cuentas /\ PeticionSana(p) /\ p.seg = asistente.seg /\ p.seg \in Completos
      BY <1>1, <2>3 DEF Cuentas, PeticionSana
    <3>4. bien => d = Calcular(escuela, p.seg) /\ ~Rechazada(p.seg, Nulo)
      BY <1>4, <3>1, <3>3 DEF PeticionSana
    <3>5. bien => CuentaDe(d, asistente.seg)
      BY <3>3, <3>4 DEF CuentaDe, Completos
    <3>6. d \in Contados \cup {Nulo}
      BY <3>1, <3>3, <3>4 DEF Contados
    <3>7. conteo' \in Conteos /\ conteo'.datos = d /\ conteo'.temporizador = conteo.temporizador
      BY <1>1, <3>2, <3>6 DEF Conteos
    <3>8. d # Nulo => CuentaDe(d, asistente.seg)
      BY <3>1, <3>5
    <3> QED BY <1>1, <2>1, <3>7, <3>8, ContarAsistente
  <2> QED BY <2>2, <2>3
<1>5. ASSUME NEW p \in peticiones, Entregada(p) PROVE InvAsistente'
  <2>1. p.respuesta # Nulo /\ Mostrar(p, p.respuesta.ok)
    BY <1>5 DEF Entregada
  <2>2. PICK b \in BOOLEAN : b = p.respuesta.ok
    BY <1>1, <2>1 DEF Cuentas
  <2>3. Mostrar(p, b) /\ (b => p.respuesta.ok)
    BY <2>1, <2>2
  <2> QED BY <1>4, <2>1, <2>3
<1>6. ASSUME NEW p \in peticiones, Perdida(p) PROVE InvAsistente'
  BY <1>4, <1>6 DEF Perdida
<1> QED BY <1>2, <1>3, <1>5, <1>6

\* POST /procesos: a borrador has aulas of the active year, and a representante_aula is by aulas.
LEMMA FinalizarAsistente ==
  ASSUME InvAsistente, Finalizar \/ CrearBorrador \/ Responder
  PROVE  InvAsistente'
<1> USE DEF InvAsistente
<1>1. asistente \in Asistentes /\ UNCHANGED <<escuela, conteo, peticiones>>
  BY DEF TipoAsistente, Finalizar, CrearBorrador, Responder
<1>2. ASSUME asistente' \in Asistentes, asistente'.seg = asistente.seg, asistente'.tipo = asistente.tipo,
             asistente'.paso = asistente.paso
      PROVE  ConteoSano' /\ (asistente'.paso # 1 => PorAulas(asistente)')
  <2>1. \A p : PeticionSana(p) => PeticionSana(p)'
    BY <1>1, <1>2 DEF PeticionSana
  <2>2. CuentaDe(conteo.datos, asistente.seg) => CuentaDe(conteo.datos, asistente.seg)'
    BY <1>1, <1>2 DEF CuentaDe
  <2> QED BY <1>1, <1>2, <2>1, <2>2 DEF ConteoSano, PorAulas
<1>3. ASSUME asistente' \in Asistentes,
             envio' \in [tipo : Tipos \cup {Nulo}, seg : Segmentos, fase : {"ida", "creado", "rechazado"}] \cup {Nulo}
      PROVE  TipoAsistente'
  <2>1. Contados' = Contados
    BY <1>1 DEF Contados
  <2>2. Conteos' = Conteos /\ Cuentas' = Cuentas
    BY <2>1 DEF Conteos, Cuentas
  <2>3. conteo' \in Conteos /\ peticiones' \subseteq Cuentas /\ escuela' \in Escuelas
    <3> HIDE DEF InvAsistente
    <3>1. TipoAsistente
      BY DEF InvAsistente
    <3> QED BY <1>1, <3>1 DEF TipoAsistente
  <2> HIDE DEF InvAsistente
  <2> QED BY <1>3, <2>2, <2>3 DEF TipoAsistente
<1>4. CASE Finalizar
  <2>1. /\ asistente' = [asistente EXCEPT !.enviando = TRUE] /\ asistente.paso = 4 /\ borradores' = borradores
        /\ envio' = [tipo |-> asistente.tipo, seg |-> asistente.seg, fase |-> "ida"]
    BY <1>4 DEF Finalizar, EnPasoDe
  <2>2. /\ asistente' \in Asistentes /\ asistente'.seg = asistente.seg /\ asistente'.tipo = asistente.tipo
        /\ asistente'.paso = asistente.paso
    BY <1>1, <2>1 DEF Asistentes
  <2>3. envio' \in [tipo : Tipos \cup {Nulo}, seg : Segmentos, fase : {"ida", "creado", "rechazado"}]
    BY <1>1, <2>1 DEF Asistentes
  <2>4. BorradorValido'
    BY <1>1, <2>1 DEF BorradorValido
  <2>5. PorAulas(envio)'
    BY <2>1 DEF PorAulas
  <2> QED BY <1>2, <1>3, <2>2, <2>3, <2>4, <2>5
<1>5. CASE CrearBorrador
  <2>1. envio \in [tipo : Tipos \cup {Nulo}, seg : Segmentos, fase : {"ida", "creado", "rechazado"}]
    BY <1>5 DEF CrearBorrador, TipoAsistente
  <2> DEFINE as == AulasConMatricula(escuela, Resueltas(envio.seg))
             b  == [tipo |-> envio.tipo, seg |-> envio.seg, aulas |-> as]
             f  == IF Aceptable(envio) THEN "creado" ELSE "rechazado"
  <2>2. /\ borradores' = borradores \cup (IF Aceptable(envio) THEN {b} ELSE {})
        /\ envio' = [envio EXCEPT !.fase = f] /\ asistente' = asistente
    BY <1>5 DEF CrearBorrador
  <2>3. envio' \in [tipo : Tipos \cup {Nulo}, seg : Segmentos, fase : {"ida", "creado", "rechazado"}]
          /\ envio'.tipo = envio.tipo /\ envio'.seg = envio.seg
    BY <2>1, <2>2
  <2>4. PorAulas(envio) /\ PorAulas(envio)'
    BY <1>5, <2>3 DEF CrearBorrador, PorAulas
  <2>5. Aceptable(envio) => as # {}
    BY DEF Aceptable
  <2>6. as \subseteq AulasDelAnio /\ \A a \in as : Elegibles(escuela, {a}) # {}
    BY DEF AulasConMatricula, Resueltas
  <2>7. b.tipo = envio.tipo /\ b.seg = envio.seg /\ b.aulas = as
    OBVIOUS
  <2> HIDE DEF as, b
  <2>8. BorradorValido'
    BY <1>1, <2>2, <2>4, <2>5, <2>6, <2>7 DEF BorradorValido, PorAulas
  <2> QED BY <1>1, <1>2, <1>3, <2>2, <2>3, <2>4, <2>8
<1>6. CASE Responder
  <2>1. PICK x \in BOOLEAN : asistente' = [asistente EXCEPT !.enviando = FALSE, !.creado = x]
    <3>1. PICK perdida \in BOOLEAN :
             asistente' = [asistente EXCEPT !.enviando = FALSE, !.creado = ~perdida /\ envio.fase = "creado"]
      BY <1>6 DEF Responder
    <3>2. PICK x \in BOOLEAN : x = (~perdida /\ envio.fase = "creado")
      OBVIOUS
    <3> QED BY <3>1, <3>2
  <2>2. /\ asistente' \in Asistentes /\ asistente'.seg = asistente.seg /\ asistente'.tipo = asistente.tipo
        /\ asistente'.paso = asistente.paso
    BY <1>1, <2>1 DEF Asistentes
  <2>3. envio' = Nulo /\ borradores' = borradores
    BY <1>6 DEF Responder
  <2>4. BorradorValido'
    BY <1>1, <2>3 DEF BorradorValido
  <2> QED BY <1>2, <1>3, <2>2, <2>3, <2>4
<1> QED BY <1>4, <1>5, <1>6

\* The invariant of the asistente holds at the start.
LEMMA AsistenteInicial == ASSUME InitAsistente PROVE InvAsistente
<1>1. /\ escuela \in Escuelas /\ conteo = EstadoVacio /\ peticiones = {} /\ envio = Nulo /\ borradores = {}
      /\ asistente = [paso |-> 1, tipo |-> Nulo, seg |-> SegmentacionLimpia, enviando |-> FALSE, creado |-> FALSE]
  BY DEF InitAsistente
<1>2. asistente \in Asistentes /\ asistente.paso = 1
  BY <1>1 DEF Asistentes, Segmentos, SegmentacionLimpia
<1>3. conteo \in Conteos /\ ~conteo.temporizador /\ conteo.datos = Nulo
  BY <1>1 DEF EstadoVacio, Conteos
<1>4. TipoAsistente
  BY <1>1, <1>2, <1>3 DEF TipoAsistente
<1>5. ConteoSano /\ BorradorValido
  BY <1>1, <1>3 DEF ConteoSano, BorradorValido
<1> QED BY <1>1, <1>2, <1>4, <1>5 DEF InvAsistente

\* Every step of the asistente keeps its invariant.
LEMMA PasoAsistente == ASSUME InvAsistente, NextAsistente PROVE InvAsistente'
<1>1. CASE \/ Siguiente \/ Anterior \/ (\E t \in Tipos : ElegirTipo(t)) \/ (\E p \in Publicos : ElegirPublico(p))
           \/ (\E x \in Alcances : ElegirAlcance(x)) \/ \E id \in Visibles : Marcar(id)
  BY <1>1, PasosAsistente
<1>2. CASE Disparar \/ \E p \in peticiones : Contar(p) \/ Entregada(p) \/ Perdida(p)
  BY <1>2, ConteosAsistente
<1>3. CASE Finalizar \/ CrearBorrador \/ Responder
  BY <1>3, FinalizarAsistente
<1> QED BY <1>1, <1>2, <1>3 DEF NextAsistente
-----------------------------------------------------------------------------
(* The sum over the aulas *)

\* Two functions that add h over a finite set in the order MapThenSumSet() takes are the same one.
LEMMA SumaUnica ==
  ASSUME NEW S, IsFiniteSet(S), NEW h, NEW f, NEW g,
         f = [s \in SUBSET S |-> IF s = {} THEN 0 ELSE h[CHOOSE x \in s : TRUE] + f[s \ {CHOOSE x \in s : TRUE}]],
         g = [s \in SUBSET S |-> IF s = {} THEN 0 ELSE h[CHOOSE x \in s : TRUE] + g[s \ {CHOOSE x \in s : TRUE}]]
  PROVE  f = g
<1> DEFINE T == {s \in SUBSET S : f[s] # g[s]}
<1>1. IsWellFoundedOn(StrictSubsetOrdering(S), SUBSET S)
  BY FS_StrictSubsetOrderingWellFounded, FS_FiniteSubsetsOfFinite
<1>2. T = {}
  <2> SUFFICES ASSUME T # {} PROVE FALSE
    OBVIOUS
  <2>1. PICK s \in T : \A y \in T : ~(<<y, s>> \in StrictSubsetOrdering(S))
    <3>1. T \subseteq SUBSET S
      OBVIOUS
    <3> HIDE DEF T
    <3> QED BY <1>1, <3>1, WFMin
  <2>2. s # {}
    <3>1. f[{}] = 0 /\ g[{}] = 0
      OBVIOUS
    <3> QED BY <2>1, <3>1
  <2> DEFINE x == CHOOSE x \in s : TRUE
             r == s \ {x}
  <2>3. x \in s /\ s \in SUBSET S
    BY <2>2
  <2>4. r \in SUBSET S /\ <<r, s>> \in StrictSubsetOrdering(S)
    BY <2>3 DEF StrictSubsetOrdering
  <2>5. f[r] = g[r]
    BY <2>1, <2>4
  <2>6. f[s] = h[x] + f[r] /\ g[s] = h[x] + g[r]
    <3> HIDE DEF T
    <3> QED BY <2>2, <2>3
  <2> QED BY <2>1, <2>5, <2>6
<1>3. DOMAIN f = SUBSET S /\ DOMAIN g = SUBSET S
  OBVIOUS
<1>4. f = [s \in SUBSET S |-> f[s]] /\ g = [s \in SUBSET S |-> g[s]]
  OBVIOUS
<1>5. \A s \in SUBSET S : f[s] = g[s]
  BY <1>2
<1> HIDE DEF T
<1> QED BY <1>4, <1>5

\* The matriculas of an aula more.
LEMMA ElegiblesSuman ==
  ASSUME NEW e, IsFiniteSet(e.matriculas), NEW s, NEW x \in s
  PROVE  /\ IsFiniteSet(Elegibles(e, s)) /\ IsFiniteSet(ConApoderado(e, s))
         /\ Cardinality(Elegibles(e, s)) = Cardinality(Elegibles(e, {x})) + Cardinality(Elegibles(e, s \ {x}))
         /\ Cardinality(ConApoderado(e, s)) = Cardinality(ConApoderado(e, {x})) + Cardinality(ConApoderado(e, s \ {x}))
<1>1. \A t : IsFiniteSet(Elegibles(e, t)) /\ IsFiniteSet(ConApoderado(e, t))
  BY FS_Subset DEF Elegibles, ConApoderado
<1>2. ASSUME NEW A, NEW B, IsFiniteSet(A), IsFiniteSet(B), A \cap B = {}
      PROVE  Cardinality(A \cup B) = Cardinality(A) + Cardinality(B)
  <2>1. Cardinality(A \cup B) = Cardinality(A) + Cardinality(B) - Cardinality(A \cap B)
    BY <1>2, FS_Union
  <2>2. Cardinality(A \cap B) = 0 /\ Cardinality(A) \in Nat /\ Cardinality(B) \in Nat
    BY <1>2, FS_EmptySet, FS_CardinalityType
  <2> QED BY <2>1, <2>2
<1>3. /\ Elegibles(e, s) = Elegibles(e, {x}) \cup Elegibles(e, s \ {x})
      /\ Elegibles(e, {x}) \cap Elegibles(e, s \ {x}) = {}
  BY DEF Elegibles
<1>4. /\ ConApoderado(e, s) = ConApoderado(e, {x}) \cup ConApoderado(e, s \ {x})
      /\ ConApoderado(e, {x}) \cap ConApoderado(e, s \ {x}) = {}
  BY DEF Elegibles, ConApoderado
<1> QED BY <1>1, <1>2, <1>3, <1>4

\* MapThenSumSet() adds what its aulas have.
LEMMA SumaElegibles ==
  ASSUME NEW e, IsFiniteSet(e.matriculas), NEW S, IsFiniteSet(S)
  PROVE  MapThenSumSet(LAMBDA a : Cardinality(Elegibles(e, {a})), S) = Cardinality(Elegibles(e, S))
<1> DEFINE h == [a \in S |-> Cardinality(Elegibles(e, {a}))]
           g == [s \in SUBSET S |-> Cardinality(Elegibles(e, s))]
           it == CHOOSE it : it = [s \in SUBSET S |-> IF s = {} THEN 0 ELSE
                                     Cardinality(Elegibles(e, {CHOOSE x \in s : TRUE})) + it[s \ {CHOOSE x \in s : TRUE}]]
<1>1. MapThenSumSet(LAMBDA a : Cardinality(Elegibles(e, {a})), S) = it[S]
  BY Zenon DEF MapThenSumSet, MapThenFoldSet
<1>2. ASSUME NEW s \in SUBSET S
      PROVE  g[s] = IF s = {} THEN 0 ELSE
                      Cardinality(Elegibles(e, {CHOOSE x \in s : TRUE})) + g[s \ {CHOOSE x \in s : TRUE}]
  <2>1. CASE s = {}
    <3>1. Elegibles(e, {}) = {}
      BY DEF Elegibles
    <3> QED BY <2>1, <3>1, FS_EmptySet
  <2>2. CASE s # {}
    <3>1. PICK z : z = CHOOSE x \in s : TRUE
      OBVIOUS
    <3>2. z \in s /\ s \ {z} \in SUBSET S
      BY <2>2, <3>1
    <3>3. Cardinality(Elegibles(e, s)) = Cardinality(Elegibles(e, {z})) + Cardinality(Elegibles(e, s \ {z}))
      BY <3>2, ElegiblesSuman
    <3> QED BY <2>2, <3>1, <3>2, <3>3
  <2> QED BY <2>1, <2>2
<1>3. g = [s \in SUBSET S |-> IF s = {} THEN 0 ELSE
                                Cardinality(Elegibles(e, {CHOOSE x \in s : TRUE})) + g[s \ {CHOOSE x \in s : TRUE}]]
  <2> HIDE DEF g
  <2>1. g = [s \in SUBSET S |-> g[s]]
    BY DEF g
  <2> QED BY <1>2, <2>1
<1> HIDE DEF g
<1>4. it = [s \in SUBSET S |-> IF s = {} THEN 0 ELSE
                                 Cardinality(Elegibles(e, {CHOOSE x \in s : TRUE})) + it[s \ {CHOOSE x \in s : TRUE}]]
  BY <1>3
<1> HIDE DEF it
<1>5. ASSUME NEW f, f = [s \in SUBSET S |-> IF s = {} THEN 0 ELSE
                           Cardinality(Elegibles(e, {CHOOSE x \in s : TRUE})) + f[s \ {CHOOSE x \in s : TRUE}]]
      PROVE  f = [s \in SUBSET S |-> IF s = {} THEN 0 ELSE h[CHOOSE x \in s : TRUE] + f[s \ {CHOOSE x \in s : TRUE}]]
  <2>1. \A s \in SUBSET S : s # {} => h[CHOOSE x \in s : TRUE] = Cardinality(Elegibles(e, {CHOOSE x \in s : TRUE}))
    OBVIOUS
  <2> HIDE DEF h
  <2> QED BY <1>5, <2>1
<1> HIDE DEF h
<1>6. it = [s \in SUBSET S |-> IF s = {} THEN 0 ELSE h[CHOOSE x \in s : TRUE] + it[s \ {CHOOSE x \in s : TRUE}]]
  BY <1>4, <1>5
<1>7. g = [s \in SUBSET S |-> IF s = {} THEN 0 ELSE h[CHOOSE x \in s : TRUE] + g[s \ {CHOOSE x \in s : TRUE}]]
  BY <1>3, <1>5
<1>8. it = g
  BY ONLY <1>6, <1>7, SumaUnica, IsFiniteSet(S)
<1> QED BY <1>1, <1>8 DEF g

\* The same of the rights of each aula.
LEMMA SumaDerechos ==
  ASSUME NEW e, IsFiniteSet(e.matriculas), NEW S, IsFiniteSet(S), NEW p \in {"estudiantes", "padres", "comunidad"}
  PROVE  MapThenSumSet(LAMBDA a : DerechosPorAula(p, Cardinality(Elegibles(e, {a})), Cardinality(ConApoderado(e, {a}))), S)
           = DerechosPorAula(p, Cardinality(Elegibles(e, S)), Cardinality(ConApoderado(e, S)))
<1> DEFINE D(s) == DerechosPorAula(p, Cardinality(Elegibles(e, s)), Cardinality(ConApoderado(e, s)))
           h == [a \in S |-> D({a})]
           g == [s \in SUBSET S |-> D(s)]
           it == CHOOSE it : it = [s \in SUBSET S |-> IF s = {} THEN 0 ELSE
                                     D({CHOOSE x \in s : TRUE}) + it[s \ {CHOOSE x \in s : TRUE}]]
<1>1. MapThenSumSet(LAMBDA a : D({a}), S) = it[S]
  BY Zenon DEF MapThenSumSet, MapThenFoldSet
<1>2. ASSUME NEW s \in SUBSET S
      PROVE  g[s] = IF s = {} THEN 0 ELSE D({CHOOSE x \in s : TRUE}) + g[s \ {CHOOSE x \in s : TRUE}]
  <2>1. CASE s = {}
    <3>1. Elegibles(e, {}) = {} /\ ConApoderado(e, {}) = {}
      BY DEF Elegibles, ConApoderado
    <3>2. D({}) = 0
      BY <3>1, FS_EmptySet DEF DerechosPorAula
    <3> QED BY <2>1, <3>2
  <2>2. CASE s # {}
    <3>1. PICK z : z = CHOOSE x \in s : TRUE
      OBVIOUS
    <3>2. z \in s /\ s \ {z} \in SUBSET S
      BY <2>2, <3>1
    <3>3. /\ Cardinality(Elegibles(e, s)) = Cardinality(Elegibles(e, {z})) + Cardinality(Elegibles(e, s \ {z}))
          /\ Cardinality(ConApoderado(e, s)) = Cardinality(ConApoderado(e, {z})) + Cardinality(ConApoderado(e, s \ {z}))
      BY <3>2, ElegiblesSuman
    <3>4. ASSUME NEW t PROVE Cardinality(Elegibles(e, t)) \in Nat /\ Cardinality(ConApoderado(e, t)) \in Nat
      <4>1. IsFiniteSet(Elegibles(e, t)) /\ IsFiniteSet(ConApoderado(e, t))
        BY FS_Subset DEF Elegibles, ConApoderado
      <4> QED BY <4>1, FS_CardinalityType
    <3>5. D(s) = D({z}) + D(s \ {z})
      BY <3>3, <3>4 DEF DerechosPorAula
    <3> HIDE DEF D
    <3> QED BY <2>2, <3>1, <3>2, <3>5
  <2> QED BY <2>1, <2>2
<1> HIDE DEF D
<1>3. g = [s \in SUBSET S |-> IF s = {} THEN 0 ELSE D({CHOOSE x \in s : TRUE}) + g[s \ {CHOOSE x \in s : TRUE}]]
  <2> HIDE DEF g
  <2>1. g = [s \in SUBSET S |-> g[s]]
    BY DEF g
  <2> QED BY <1>2, <2>1
<1> HIDE DEF g
<1>4. it = [s \in SUBSET S |-> IF s = {} THEN 0 ELSE D({CHOOSE x \in s : TRUE}) + it[s \ {CHOOSE x \in s : TRUE}]]
  BY <1>3
<1> HIDE DEF it
<1>5. ASSUME NEW f, f = [s \in SUBSET S |-> IF s = {} THEN 0 ELSE D({CHOOSE x \in s : TRUE}) + f[s \ {CHOOSE x \in s : TRUE}]]
      PROVE  f = [s \in SUBSET S |-> IF s = {} THEN 0 ELSE h[CHOOSE x \in s : TRUE] + f[s \ {CHOOSE x \in s : TRUE}]]
  <2>1. \A s \in SUBSET S : s # {} => h[CHOOSE x \in s : TRUE] = D({CHOOSE x \in s : TRUE})
    OBVIOUS
  <2> HIDE DEF h
  <2> QED BY <1>5, <2>1
<1> HIDE DEF h
<1>6. it = [s \in SUBSET S |-> IF s = {} THEN 0 ELSE h[CHOOSE x \in s : TRUE] + it[s \ {CHOOSE x \in s : TRUE}]]
  BY <1>4, <1>5
<1>7. g = [s \in SUBSET S |-> IF s = {} THEN 0 ELSE h[CHOOSE x \in s : TRUE] + g[s \ {CHOOSE x \in s : TRUE}]]
  BY <1>3, <1>5
<1>8. it = g
  BY ONLY <1>6, <1>7, SumaUnica, IsFiniteSet(S)
<1> QED BY <1>1, <1>8 DEF g, D

\* The rows of the opening are as many as the rights of their aulas.
LEMMA FilasDelPadron ==
  ASSUME NEW e, IsFiniteSet(e.matriculas), e.matriculas \subseteq [alumno : Alumnos, aula : Aulas], NEW S,
         NEW p \in {"estudiantes", "padres", "comunidad"}
  PROVE  Cardinality(Materializar(e, p, S)) = DerechosPorAula(p, Cardinality(Elegibles(e, S)), Cardinality(ConApoderado(e, S)))
<1> DEFINE Fila(m, c) == [alumno |-> m.alumno, aula |-> m.aula, calidad |-> c]
           F(M, c) == {Fila(m, c) : m \in M}
           M1 == IF p \in {"estudiantes", "comunidad"} THEN Elegibles(e, S) ELSE {}
           M2 == IF p \in {"padres", "comunidad"} THEN ConApoderado(e, S) ELSE {}
<1>1. ASSUME NEW M, M \subseteq e.matriculas, NEW c PROVE IsFiniteSet(F(M, c)) /\ Cardinality(F(M, c)) = Cardinality(M)
  <2> DEFINE f == [m \in M |-> Fila(m, c)]
  <2>1. IsFiniteSet(M)
    BY <1>1, FS_Subset
  <2>2. f \in Bijection(M, F(M, c))
    <3>1. f \in [M -> F(M, c)]
      OBVIOUS
    <3>2. ASSUME NEW a \in M, NEW b \in M, f[a] = f[b] PROVE a = b
      BY <1>1, <3>2
    <3>3. \A t \in F(M, c) : \E m \in M : f[m] = t
      OBVIOUS
    <3> HIDE DEF f
    <3> QED BY <3>1, <3>2, <3>3 DEF Bijection, Injection, Surjection, IsInjective
  <2> QED BY <2>1, <2>2, FS_Bijection DEF ExistsBijection
<1>2. M1 \subseteq e.matriculas /\ M2 \subseteq e.matriculas
  BY DEF Elegibles, ConApoderado
<1>3. Materializar(e, p, S) = F(M1, "estudiante") \cup F(M2, "padre")
  BY DEF Materializar
<1>4. F(M1, "estudiante") \cap F(M2, "padre") = {}
  OBVIOUS
<1> HIDE DEF F
<1>5. /\ IsFiniteSet(F(M1, "estudiante")) /\ Cardinality(F(M1, "estudiante")) = Cardinality(M1)
      /\ IsFiniteSet(F(M2, "padre")) /\ Cardinality(F(M2, "padre")) = Cardinality(M2)
  BY <1>1, <1>2
<1>6. Cardinality(M1) \in Nat /\ Cardinality(M2) \in Nat
  BY <1>2, FS_Subset, FS_CardinalityType
<1>7. Cardinality(F(M1, "estudiante") \cup F(M2, "padre")) = Cardinality(M1) + Cardinality(M2)
  <2>1. Cardinality(F(M1, "estudiante") \cup F(M2, "padre")) = Cardinality(M1) + Cardinality(M2) - Cardinality({})
    BY <1>4, <1>5, FS_Union
  <2> QED BY <1>6, <2>1, FS_EmptySet
<1>8. Cardinality({}) = 0
  BY FS_EmptySet
<1>9. /\ p = "estudiantes" => Cardinality(M1) = Cardinality(Elegibles(e, S)) /\ Cardinality(M2) = 0
      /\ p = "padres" => Cardinality(M1) = 0 /\ Cardinality(M2) = Cardinality(ConApoderado(e, S))
      /\ p = "comunidad" => Cardinality(M1) = Cardinality(Elegibles(e, S)) /\ Cardinality(M2) = Cardinality(ConApoderado(e, S))
  BY <1>8
<1> HIDE DEF M1, M2
<1> QED BY <1>3, <1>6, <1>7, <1>9 DEF DerechosPorAula

\* What calcular() counts, aula by aula, is what abrir() would materialise; without the aviso no
\* student has two rows of the same calidad.
LEMMA CuentaExacta ==
  ASSUME NEW e \in Escuelas, NEW s \in Segmentos, Completa(s)
  PROVE  LET d == Calcular(e, s) IN
         /\ d.excluidas = Resueltas(s) \ AulasConMatricula(e, Resueltas(s))
         /\ d.derechos = Cardinality(Padron(e, s))
         /\ d.aviso \/ SinRepetir(Padron(e, s))
<1> DEFINE as == Resueltas(s)
           C  == {a \in as : Cardinality(Elegibles(e, {a})) > 0}
           p  == s.publico
           M  == Elegibles(e, C)
           U  == {m.alumno : m \in Elegibles(e, as)}
<1>1. IsFiniteSet(e.matriculas) /\ e.matriculas \subseteq [alumno : Alumnos, aula : Aulas]
  BY ConstantesAsistente
<1>2. p \in {"estudiantes", "padres", "comunidad"}
  BY ConstantesPadron DEF Segmentos, Completa
<1>3. \A t : IsFiniteSet(Elegibles(e, t)) /\ IsFiniteSet(ConApoderado(e, t))
  BY <1>1, FS_Subset DEF Elegibles, ConApoderado
<1>4. C = AulasConMatricula(e, as)
  <2>1. ASSUME NEW a PROVE Cardinality(Elegibles(e, {a})) > 0 <=> Elegibles(e, {a}) # {}
    <3>1. PICK T : T = Elegibles(e, {a})
      OBVIOUS
    <3>2. IsFiniteSet(T)
      BY <1>3, <3>1
    <3>3. Cardinality(T) \in Nat /\ (Cardinality(T) = 0 <=> T = {})
      BY <3>2, FS_EmptySet, FS_CardinalityType
    <3> QED BY <3>1, <3>3
  <2> QED BY <2>1 DEF AulasConMatricula
<1>5. IsFiniteSet(C)
  <2> DEFINE f == [m \in M |-> m.aula]
  <2>1. f \in Surjection(M, C)
    <3>1. f \in [M -> C]
      BY DEF Elegibles
    <3>2. ASSUME NEW a \in C PROVE \E m \in M : f[m] = a
      <4>1. PICK m : m \in Elegibles(e, {a})
        BY <1>4 DEF AulasConMatricula
      <4>2. m \in M /\ m.aula = a
        BY <4>1 DEF Elegibles
      <4> QED BY <4>2
    <3> HIDE DEF f
    <3> QED BY <3>1, <3>2 DEF Surjection
  <2>2. IsFiniteSet(M)
    BY <1>3
  <2> HIDE DEF f, M, C
  <2> QED BY <2>1, <2>2, FS_Surjection
<1>6. M = Elegibles(e, as)
  <2>1. \A m \in Elegibles(e, as) : m \in Elegibles(e, {m.aula})
    BY DEF Elegibles
  <2> QED BY <1>4, <2>1 DEF Elegibles, AulasConMatricula
<1>7. /\ Calcular(e, s).derechos =
           MapThenSumSet(LAMBDA a : DerechosPorAula(p, Cardinality(Elegibles(e, {a})), Cardinality(ConApoderado(e, {a}))), C)
      /\ Calcular(e, s).excluidas = as \ C
      /\ Calcular(e, s).aviso <=> MapThenSumSet(LAMBDA a : Cardinality(Elegibles(e, {a})), C) # Cardinality(U)
  BY DEF Calcular
<1>8. Calcular(e, s).derechos = Cardinality(Padron(e, s))
  <2>1. Padron(e, s) = Materializar(e, p, C)
    BY <1>4 DEF Padron
  <2> HIDE DEF C, p
  <2>2. Calcular(e, s).derechos = DerechosPorAula(p, Cardinality(Elegibles(e, C)), Cardinality(ConApoderado(e, C)))
    BY <1>1, <1>2, <1>5, <1>7, SumaDerechos
  <2>3. Cardinality(Materializar(e, p, C)) = DerechosPorAula(p, Cardinality(Elegibles(e, C)), Cardinality(ConApoderado(e, C)))
    BY <1>1, <1>2, FilasDelPadron
  <2> QED BY <2>1, <2>2, <2>3
<1>9. ~Calcular(e, s).aviso => Cardinality(M) = Cardinality(U)
  <2> HIDE DEF C, U
  <2> QED BY <1>1, <1>5, <1>7, SumaElegibles
<1>10. ASSUME Cardinality(M) = Cardinality(U) PROVE SinRepetir(Padron(e, s))
  <2> DEFINE f == [m \in M |-> m.alumno]
  <2>1. f \in Surjection(M, U)
    <3>1. f \in [M -> U] /\ \A u \in U : \E m \in M : f[m] = u
      BY <1>6
    <3> HIDE DEF f, M, U
    <3> QED BY <3>1 DEF Surjection
  <2>2. f \in Injection(M, U)
    <3> HIDE DEF f, M, U
    <3>1. IsFiniteSet(M)
      BY <1>3 DEF M
    <3> QED BY <1>10, <2>1, <3>1, FS_SurjSameCardinalityImpliesInj
  <2>3. \A a, b \in M : a.alumno = b.alumno => a = b
    BY <2>2 DEF Injection, IsInjective
  <2>4. ASSUME NEW x \in Padron(e, s)
        PROVE  \E m \in M : x.alumno = m.alumno /\ x = [alumno |-> m.alumno, aula |-> m.aula, calidad |-> x.calidad]
    <3>1. \/ \E m \in M : x = [alumno |-> m.alumno, aula |-> m.aula, calidad |-> "estudiante"]
          \/ \E m \in ConApoderado(e, C) : x = [alumno |-> m.alumno, aula |-> m.aula, calidad |-> "padre"]
      <4> HIDE DEF C
      <4> QED BY <1>4, <2>4 DEF Padron, Materializar
    <3>2. ConApoderado(e, C) \subseteq M
      BY DEF ConApoderado
    <3> HIDE DEF M
    <3>3. PICK m \in M, c \in {"estudiante", "padre"} : x = [alumno |-> m.alumno, aula |-> m.aula, calidad |-> c]
      BY <3>1, <3>2
    <3>4. x.alumno = m.alumno /\ x.calidad = c
      BY <3>3
    <3> QED BY <3>3, <3>4
  <2> HIDE DEF M
  <2> QED BY <2>3, <2>4 DEF SinRepetir
<1> QED BY <1>4, <1>7, <1>8, <1>9, <1>10

\* What the asistente shows and creates is what the committee chose.
LEMMA AsistenteDiceVerdad == InvAsistente => AsistenteVeraz
<1> SUFFICES ASSUME InvAsistente PROVE AsistenteVeraz
  OBVIOUS
<1>1. ConteoVeraz
  <2> SUFFICES ASSUME ~conteo.temporizador, ~conteo.cargando, conteo.datos # Nulo
               PROVE  LET s == asistente.seg IN
                      /\ Completa(s) /\ ~Rechazada(s, Nulo)
                      /\ conteo.datos.excluidas = Resueltas(s) \ AulasConMatricula(escuela, Resueltas(s))
                      /\ conteo.datos.aviso \/ conteo.datos.derechos = Cardinality(Padron(escuela, s))
                      /\ conteo.datos.aviso \/ SinRepetir(Padron(escuela, s))
    BY DEF ConteoVeraz
  <2>1. CuentaDe(conteo.datos, asistente.seg)
    BY DEF InvAsistente, ConteoSano
  <2>2. escuela \in Escuelas /\ asistente.seg \in Segmentos
    BY DEF InvAsistente, TipoAsistente, Asistentes
  <2> QED BY <2>1, <2>2, CuentaExacta DEF CuentaDe
<1> QED BY <1>1 DEF AsistenteVeraz, InvAsistente
-----------------------------------------------------------------------------
(* The pages of each role *)

\* Each page, while it is on the screen, keeps its own invariant.
InvPantallas ==
  /\ pantalla # Nulo => InvBoleta
  /\ panel # Nulo => InvPaneles
  /\ asistente # Nulo => InvAsistente

\* The invariant of the three pages, at the start and after each step of the tab.
THEOREM InvariantePantallas == Spec => []InvPantallas
<1>1. Init => InvPantallas
  BY BoletaInicial, PanelesInicial, AsistenteInicial DEF Init, InvPantallas, SinVotante, SinPaneles, SinAsistente
<1>2. InvPantallas /\ [Next]_vars => InvPantallas'
  <2> SUFFICES ASSUME InvPantallas, [Next]_vars PROVE InvPantallas'
    OBVIOUS
  <2>1. ASSUME UNCHANGED deBoleta, pantalla # Nulo => InvBoleta PROVE (pantalla # Nulo => InvBoleta)'
    BY <2>1 DEF deBoleta, InvBoleta, TipoBoleta, LlamadasCiertas, Propia, Cierta, PaginaCierta, ReciboVeraz, ListaVeraz,
      RechazoVeraz, Votante!Votados, Votante!PorClave
  <2>2. ASSUME UNCHANGED dePaneles, panel # Nulo => InvPaneles PROVE (panel # Nulo => InvPaneles)'
    BY <2>2 DEF dePaneles, InvPaneles, TipoPaneles, TipoTabla, PanelSano, PedidoSano, SinHueco, Suya, Conserva, Condenada
  <2>3. ASSUME UNCHANGED varsAsistente, asistente # Nulo => InvAsistente PROVE (asistente # Nulo => InvAsistente)'
    BY <2>3 DEF varsAsistente, InvAsistente, TipoAsistente, Conteos, Cuentas, Contados, ConteoSano, PeticionSana, CuentaDe,
      BorradorValido, PorAulas
  <2>4. CASE EnBoleta
    BY <2>2, <2>3, <2>4, PasoBoleta DEF EnBoleta, InvPantallas
  <2>5. CASE EnPaneles
    BY <2>1, <2>3, <2>5, PasoPaneles DEF EnPaneles, InvPantallas
  <2>6. CASE EnAsistente
    BY <2>1, <2>2, <2>6, PasoAsistente DEF EnAsistente, InvPantallas
  <2>7. CASE UNCHANGED vars
    BY <2>1, <2>2, <2>3, <2>7 DEF vars, InvPantallas
  <2> QED BY <2>4, <2>5, <2>6, <2>7 DEF Next
<1> QED BY <1>1, <1>2, PTL DEF Spec

\* What the pages of the voter say of the vote is what the ballot box holds (VotacionPage,
\* MisVotacionesPage, ComprobantePage).
THEOREM PantallaDiceVerdad == Spec => []BoletaVeraz
<1>1. InvPantallas => BoletaVeraz
  BY BoletaDiceVerdad DEF InvPantallas, BoletaVeraz
<1> QED BY <1>1, InvariantePantallas, PTL

\* No traslado leaves a student without matricula and no form saves the row of another
\* (PanelMatriculas, FormularioGenerico).
THEOREM PanelNoDania == Spec => []PanelSinDanio
<1>1. InvPantallas => PanelSinDanio
  BY PanelesSinDanio DEF InvPantallas, PanelSinDanio
<1> QED BY <1>1, InvariantePantallas, PTL

\* The count of the asistente is the padron that the opening materialises, and every borrador is of
\* aulas that can vote (usePadronEnVivo(), PadronService, ProcesosService.crear()).
THEOREM ConteoDiceVerdad == Spec => []PadronVeraz
<1>1. InvPantallas => PadronVeraz
  BY AsistenteDiceVerdad DEF InvPantallas, PadronVeraz
<1> QED BY <1>1, InvariantePantallas, PTL
=============================================================================
