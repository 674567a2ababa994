------------------------------ MODULE Paneles ------------------------------
(***************************************************************************)
(* The administration panels of the frontend: a table of rows behind an    *)
(* optional filter, a form (FormularioGenerico), a dialog of confirmation  *)
(* and, in PanelMatriculas, the traslado.  They are the same component     *)
(* with other pieces, so a panel is the record of the pieces it has.       *)
(*                                                                         *)
(* Handlers are async functions: they outlive their panel, go on after     *)
(* their await with what they captured and only their setState is lost.    *)
(* A call is "ida" until the server handles it, "vuelta" until its handler *)
(* gets the answer, "huerfana" once no handler waits for it.               *)
(***************************************************************************)
EXTENDS Naturals, FiniteSets

CONSTANTS
  Ids,            \* the ids of the rows
  Personas,       \* the usuario_id of a matricula
  Grupos,         \* the values of the filter: an aula of a school year
  Inicial,        \* the rows at the start
  MaxAperturas,   \* bound: times a panel is mounted
  MaxPedidos,     \* bound: calls at a time when the user makes one
  Nulo

VARIABLES
  tabla,      \* the rows of the resource, the deleted ones too
  panel,      \* the mounted panel
  pedidos,    \* the calls
  aperturas

varsPaneles == <<tabla, panel, pedidos, aperturas>>
-----------------------------------------------------------------------------
(* The panels *)

Simple == [filtro |-> "ninguno", crear |-> TRUE, editar |-> TRUE, ficha |-> FALSE, trasladar |-> FALSE, dialogos |-> {"eliminar"}]

PanelNiveles       == Simple
PanelAniosEscolares == [Simple EXCEPT !.dialogos = {"eliminar", "activar"}]
PanelGrados        == [Simple EXCEPT !.filtro = "opcional"]
PanelSecciones     == [Simple EXCEPT !.filtro = "opcional"]
PanelAulas         == [Simple EXCEPT !.filtro = "opcional"]
PanelApoderados    == Simple
CuentasBloqueadas  == [Simple EXCEPT !.crear = FALSE, !.editar = FALSE, !.dialogos = {"desbloquear"}]
\* UsuariosPage: FichaUsuarioPage, with the form and the dialog, takes the place of the table.
UsuariosPage       == [Simple EXCEPT !.filtro = "opcional", !.ficha = TRUE, !.dialogos = {"estado"}]
\* No PATCH, and no listing without an aula.
PanelMatriculas    == [Simple EXCEPT !.filtro = "obligatorio", !.editar = FALSE, !.trasladar = TRUE]

\* soloLectura: AcademicaPage and UsuariosPage leave no action to the other roles.
SoloLectura(p) == [p EXCEPT !.crear = FALSE, !.editar = FALSE, !.trasladar = FALSE, !.dialogos = {}]
-----------------------------------------------------------------------------
SinForma == [abierta |-> FALSE, fila |-> Nulo, origen |-> Nulo]

Montado(de) ==
  [de |-> de, filtro |-> Nulo, filas |-> {}, forma |-> SinForma, enviando |-> FALSE,
   dialogo |-> Nulo, procesando |-> FALSE, traslado |-> Nulo, trasladando |-> FALSE]

\* vinculo: what the setState of its handler still reaches, all of the panel, what the ficha's parent
\* keeps, or nothing.
Pedido(tipo, fila, filtro) ==
  [tipo |-> tipo, fila |-> fila, persona |-> Nulo, grupo |-> Nulo, origen |-> Nulo, filtro |-> filtro,
   fase |-> "ida", ok |-> FALSE, vinculo |-> "panel"]

\* recargar(), with the filter its closure captured.
Recargar(de, filtro) == IF de.filtro = "obligatorio" /\ filtro = Nulo THEN {} ELSE {Pedido("listar", Nulo, filtro)}

InitPaneles(abiertos) ==
  /\ tabla = [i \in DOMAIN Inicial |-> [persona |-> Inicial[i].persona, grupo |-> Inicial[i].grupo, valores |-> i, fin |-> Nulo]]
  /\ \E de \in abiertos : panel = Montado(de) /\ pedidos = Recargar(de, Nulo)
  /\ aperturas = 1

Vivas == {i \in DOMAIN tabla : tabla[i].fin = Nulo}
-----------------------------------------------------------------------------
(* The user *)

Solo(p) == panel' = p /\ UNCHANGED <<tabla, pedidos, aperturas>>
Pedir(c, p) ==
  /\ Cardinality(pedidos) < MaxPedidos
  /\ pedidos' = pedidos \cup {c} /\ panel' = p
  /\ UNCHANGED <<tabla, aperturas>>

EnTabla == ~(panel.de.ficha /\ panel.forma.abierta)

\* Another pestana, or another page, and back.
Remontar ==
  /\ aperturas < MaxAperturas /\ aperturas' = aperturas + 1
  /\ panel' = Montado(panel.de)
  /\ pedidos' = {[c EXCEPT !.vinculo = "nadie"] : c \in {x \in pedidos : x.tipo # "listar"}} \cup Recargar(panel.de, Nulo)
  /\ UNCHANGED tabla

\* F5: the handlers are gone, the requests on their way are not.
RecargarPagina ==
  /\ aperturas < MaxAperturas /\ aperturas' = aperturas + 1
  /\ panel' = Montado(panel.de)
  /\ pedidos' = {[c EXCEPT !.fase = "huerfana"] : c \in {x \in pedidos : x.tipo # "listar" /\ x.fase # "vuelta"}}
                \cup Recargar(panel.de, Nulo)
  /\ UNCHANGED tabla

\* The effect lists again; the answer of the previous listing is still awaited.
Filtrar(g) ==
  /\ panel.de.filtro # "ninguno" /\ EnTabla /\ g # panel.filtro
  /\ Cardinality(pedidos) < MaxPedidos
  /\ panel' = [panel EXCEPT !.filtro = g, !.filas = IF Recargar(panel.de, g) = {} THEN {} ELSE @]
  /\ pedidos' = pedidos \cup Recargar(panel.de, g)
  /\ UNCHANGED <<tabla, aperturas>>

\* Mutant: no key, the form keeps what was typed.
OrigenSinClave(i) == IF panel.forma.abierta THEN panel.forma.origen ELSE i

\* key={filaEnEdicion?.id ?? 'crear'}: a form of another row starts from its values.
Origen(i) == i

Abrir(i) == Solo([panel EXCEPT !.forma = [abierta |-> TRUE, fila |-> i, origen |-> Origen(i)]])

AbrirCrear ==
  /\ panel.de.crear /\ EnTabla
  /\ panel.de.filtro = "obligatorio" => panel.filtro # Nulo
  /\ Abrir(Nulo)
AbrirEditar(i) == panel.de.editar /\ EnTabla /\ i \in panel.filas /\ Abrir(i)

\* onCancelar, and onVolver of the ficha: its handlers go on and only their onCambio() has effect.
CancelarForma ==
  /\ panel.forma.abierta
  /\ panel' = [panel EXCEPT !.forma = SinForma, !.enviando = @ /\ ~panel.de.ficha,
                            !.dialogo = IF panel.de.ficha THEN Nulo ELSE @, !.procesando = @ /\ ~panel.de.ficha]
  /\ pedidos' = IF ~panel.de.ficha THEN pedidos
                ELSE {IF c.vinculo = "panel" /\ c.tipo # "listar" THEN [c EXCEPT !.vinculo = "padre"] ELSE c : c \in pedidos}
  /\ UNCHANGED <<tabla, aperturas>>

\* manejarEnviarFormulario(): PanelMatriculas creates in the group of the filter, and its form is not
\* on the screen without one.
Enviar(u, g) ==
  /\ panel.forma.abierta /\ ~panel.enviando
  /\ panel.de.filtro = "obligatorio" => g = panel.filtro
  /\ LET i == panel.forma.fila IN
     Pedir([Pedido(IF i = Nulo THEN "crear" ELSE "actualizar", i, panel.filtro) EXCEPT
              !.persona = u, !.grupo = g, !.origen = panel.forma.origen],
           [panel EXCEPT !.enviando = TRUE])

\* A dialog of another row may take its place while the first one is processed.
AbrirDialogo(t, i) ==
  /\ t \in panel.de.dialogos
  /\ IF panel.de.ficha THEN panel.forma.abierta /\ i = panel.forma.fila /\ i # Nulo ELSE i \in panel.filas
  /\ Solo([panel EXCEPT !.dialogo = [tipo |-> t, fila |-> i]])
CancelarDialogo == panel.dialogo # Nulo /\ ~panel.procesando /\ Solo([panel EXCEPT !.dialogo = Nulo])
ConfirmarDialogo ==
  /\ panel.dialogo # Nulo /\ ~panel.procesando
  /\ Pedir(Pedido(panel.dialogo.tipo, panel.dialogo.fila, panel.filtro), [panel EXCEPT !.procesando = TRUE])
-----------------------------------------------------------------------------
(* The traslado of a matricula: crearMatricula() and then eliminarMatricula() *)

PedirTraslado(i) ==
  /\ panel.de.trasladar /\ i \in panel.filas
  /\ Solo([panel EXCEPT !.traslado = [paso |-> "confirmar", fila |-> i]])
ConfirmarPasoUno ==
  /\ panel.traslado # Nulo /\ panel.traslado.paso = "confirmar"
  /\ Solo([panel EXCEPT !.traslado.paso = "formulario"])
\* Its form can be cancelled while it works.
CancelarTraslado == panel.traslado # Nulo /\ Solo([panel EXCEPT !.traslado = Nulo])

Trasladar(g) ==
  /\ panel.traslado # Nulo /\ panel.traslado.paso = "formulario" /\ ~panel.trasladando
  /\ LET i == panel.traslado.fila IN
     Pedir([Pedido("alta", i, panel.filtro) EXCEPT !.persona = tabla[i].persona, !.grupo = g], [panel EXCEPT !.trasladando = TRUE])

\* Mutant: the answer of the alta is not looked at.
SigueBajaSiempre(bien) == TRUE

\* `if (!creado.ok) return'
SigueBaja(bien) == bien
-----------------------------------------------------------------------------
(* The server: a call it refuses (403, 409, 5xx) is, to its handler, a lost one *)

Repetida(c) == c.persona # Nulo /\ \E i \in Vivas : tabla[i].persona = c.persona /\ tabla[i].grupo = c.grupo

Insertada(c, n) ==
  [i \in DOMAIN tabla \cup {n} |->
     IF i = n THEN [persona |-> c.persona, grupo |-> c.grupo, valores |-> IF c.origen = Nulo THEN n ELSE c.origen, fin |-> Nulo]
     ELSE tabla[i]]

\* The tables the call may leave: none when it is refused.
Efectos(c) ==
  CASE c.tipo \in {"crear", "alta"} -> IF Repetida(c) THEN {} ELSE {Insertada(c, CHOOSE x \in Ids \ DOMAIN tabla : TRUE)}
    [] c.tipo = "actualizar" -> IF c.fila \in Vivas THEN {[tabla EXCEPT ![c.fila].valores = c.origen]} ELSE {}
    [] c.tipo \in {"eliminar", "baja"} -> IF c.fila \in Vivas THEN {[tabla EXCEPT ![c.fila].fin = c.tipo]} ELSE {}
    [] OTHER -> {tabla}

Atender(c) ==
  /\ c.fase \in {"ida", "huerfana"} /\ c.tipo # "listar"
  /\ c.tipo \in {"crear", "alta"} => DOMAIN tabla # Ids
  /\ tabla' \in IF Efectos(c) = {} THEN {tabla} ELSE Efectos(c)
  /\ pedidos' = (pedidos \ {c}) \cup (IF c.fase = "huerfana" THEN {} ELSE {[c EXCEPT !.fase = "vuelta", !.ok = Efectos(c) # {}]})
  /\ UNCHANGED <<panel, aperturas>>
-----------------------------------------------------------------------------
(* The answers *)

Vivo(c) == c.vinculo = "panel"
Listado(c) == IF c.vinculo = "nadie" THEN {} ELSE Recargar(panel.de, c.filtro)

\* What the handler does to the panel after its await, and what it calls next.
TrasForma(c, bien) ==
  panel' = [panel EXCEPT !.enviando = @ /\ ~Vivo(c), !.forma = IF bien /\ c.vinculo # "nadie" THEN SinForma ELSE @,
                         !.dialogo = IF bien /\ panel.de.ficha /\ c.vinculo # "nadie" THEN Nulo ELSE @]
TrasDialogo(c, bien) ==
  panel' = [panel EXCEPT !.procesando = @ /\ ~Vivo(c), !.dialogo = IF bien /\ c.vinculo # "nadie" THEN Nulo ELSE @,
                         !.forma = IF bien /\ panel.de.ficha /\ c.vinculo # "nadie" THEN SinForma ELSE @]
TrasAlta(c, bien) == panel' = [panel EXCEPT !.trasladando = @ /\ (SigueBaja(bien) \/ ~Vivo(c))]
TrasBaja(c, bien) ==
  panel' = IF ~Vivo(c) THEN panel
           ELSE [panel EXCEPT !.trasladando = FALSE, !.traslado = Nulo]

Siguientes(c, bien) ==
  CASE c.tipo = "alta" -> IF SigueBaja(bien) THEN {[Pedido("baja", c.fila, c.filtro) EXCEPT !.vinculo = c.vinculo]} ELSE {}
    [] c.tipo = "baja" -> Listado(c)
    [] OTHER -> IF bien THEN Listado(c) ELSE {}

Seguir(c, bien, resto) ==
  /\ pedidos' = (pedidos \ {c}) \cup Siguientes(c, bien) \cup resto
  /\ CASE c.tipo \in {"crear", "actualizar"} -> TrasForma(c, bien)
       [] c.tipo = "alta" -> TrasAlta(c, bien)
       [] c.tipo = "baja" -> TrasBaja(c, bien)
       [] OTHER -> TrasDialogo(c, bien)
  /\ UNCHANGED <<tabla, aperturas>>

\* resolver() and resolverVacio(): a refusal and a rejected fetch are the same ok: false.
Responder(c) == c.fase = "vuelta" /\ Seguir(c, c.ok, {})
Cortar(c) ==
  /\ c.fase \in {"ida", "vuelta"} /\ c.tipo # "listar"
  /\ \E resto \in {{}, {[c EXCEPT !.fase = "huerfana"]}} : (resto # {} => c.fase = "ida") /\ Seguir(c, FALSE, resto)

\* The rows of the filter of the call, not of the one on the screen; none if it is refused, the same
\* ones if it is lost (recargar() has no catch).  They are as old as their answer, then as the screen.
Listar(c) ==
  /\ c.tipo = "listar" /\ c.fase = "ida"
  /\ \E fs \in {{i \in Vivas : c.filtro \in {Nulo, tabla[i].grupo}}, {}, panel.filas} : panel' = [panel EXCEPT !.filas = fs]
  /\ pedidos' = pedidos \ {c}
  /\ UNCHANGED <<tabla, aperturas>>
-----------------------------------------------------------------------------
NextPaneles ==
  \/ Remontar \/ RecargarPagina \/ AbrirCrear \/ CancelarForma \/ CancelarDialogo \/ ConfirmarDialogo
  \/ ConfirmarPasoUno \/ CancelarTraslado
  \/ \E g \in Grupos \cup {Nulo} : Filtrar(g)
  \/ \E g \in Grupos : Trasladar(g) \/ \E u \in Personas : Enviar(u, g)
  \/ \E i \in Ids : AbrirEditar(i) \/ PedirTraslado(i) \/ \E t \in panel.de.dialogos : AbrirDialogo(t, i)
  \/ \E c \in pedidos : Atender(c) \/ Responder(c) \/ Cortar(c) \/ Listar(c)
-----------------------------------------------------------------------------
(* Properties *)

\* A student whose matriculas nobody deleted with "Eliminar" has one, whatever a traslado met: a
\* refused or lost call, another traslado of the same row, a panel unmounted or reloaded halfway
\* (PanelMatriculas.trasladarMatricula(): "si el alta falla no se borra nada").
TrasladoSinHueco ==
  \A u \in Personas :
    LET suyas == {i \in DOMAIN tabla : tabla[i].persona = u} IN
    suyas # {} => \E i \in suyas : tabla[i].fin \in {Nulo, "eliminar"}

\* What was typed in the form of a row is never saved in another, however the forms of several rows
\* follow each other while an answer is awaited (the key of FormularioGenerico).
EdicionDeSuFila == \A i \in DOMAIN tabla : tabla[i].valores = i
=============================================================================
