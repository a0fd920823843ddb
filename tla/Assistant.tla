------------------------------- MODULE Assistant -------------------------------
(***************************************************************************)
(* One operator's conversation with the assistant: AsistanProvider keeps   *)
(* the turns in the browser, AssistantService.chat answers a question with *)
(* a bounded number of calls to a language model, each of which may ask    *)
(* for tools, and some tools store documents.                              *)
(*                                                                         *)
(* The model is arbitrary: it answers, fails or asks for any tools.  Of a  *)
(* message it matters which question it belongs to and whether its length  *)
(* is one the controller accepts (1 to 4000 characters).                   *)
(***************************************************************************)
EXTENDS Sequences, Naturals, FiniteSets

CONSTANTS
    SaatliTur,   \* kinds of documents whose id is the clock's milliseconds
    RastgeleTur, \* kinds of documents with a random id
    MaxTurn,     \* MAX_TURNS, the calls of the model per question
    MaxIleti,    \* the longest history the controller accepts
    MaxCagri,    \* bound: tools the model asks for at once
    MaxSoru,     \* bound: questions
    MaxBelge     \* bound: documents the tools store

VARIABLES
    turns,       \* the conversation shown
    busy,        \* an answer is awaited
    sohbetler,   \* the questions the server works on
    soruNo,      \* questions asked so far
    belgeler,    \* the documents the tools stored, in this order
    an,          \* Date.now
    olusan,      \* history: the creations this conversation should offer
    kusur        \* history: what may cost the conversation its order or an offer

sohbetVars == <<turns, busy, sohbetler, soruNo, belgeler, an, olusan, kusur>>

-----------------------------------------------------------------------------
(* The browser.                                                            *)

Turn(rol, soru, uygun, error, eylem) ==
    [rol |-> rol, soru |-> soru, uygun |-> uygun, error |-> error, eylem |-> eylem]

\* The turns that are no errors.
Hatasiz(s) ==
    LET suz[i \in 0 .. Len(s)] ==
            IF i = 0 THEN << >> ELSE IF s[i].error THEN suz[i - 1] ELSE Append(suz[i - 1], s[i])
    IN  suz[Len(s)]

\* What is sent: these, and the question.
History(soru) == Append(Hatasiz(turns), soru)

\* Mutant of Gonderilir: the field is not locked while an answer is awaited.
GonderilirHer == TRUE

Gonderilir == ~busy

\* submit and send
Send ==
    /\ Gonderilir
    /\ soruNo < MaxSoru
    /\ \E uygun \in BOOLEAN :
          LET soru == Turn("user", soruNo + 1, uygun, FALSE, {}) IN
          /\ turns' = Append(turns, soru)
          /\ sohbetler' = sohbetler \cup
                {[soru |-> soruNo + 1, history |-> History(soru), turn |-> 0,
                  cagri |-> 0, eylem |-> {}, kopuk |-> FALSE]}
    /\ soruNo' = soruNo + 1
    /\ busy' = TRUE
    /\ UNCHANGED <<belgeler, an, olusan, kusur>>

\* clear: what was offered goes with the conversation; an answer on its way is
\* not called off.
Clear ==
    /\ turns /= << >>
    /\ turns' = << >>
    /\ olusan' = {o \in olusan : \E s \in sohbetler : o \in s.eylem}
    /\ kusur' = IF busy THEN kusur \cup {"ucarken"} ELSE kusur
    /\ UNCHANGED <<busy, sohbetler, soruNo, belgeler, an>>

\* The promise of assistantChat settles.
Gosterilir(s, t) ==
    /\ turns' = IF s.kopuk THEN turns ELSE Append(turns, t)
    /\ busy' = IF s.kopuk THEN busy ELSE FALSE

\* The connection breaks; the server goes on.
Kopar(s) ==
    /\ ~s.kopuk
    /\ Gosterilir(s, Turn("assistant", s.soru, TRUE, TRUE, {}))
    /\ sohbetler' = (sohbetler \ {s}) \cup {[s EXCEPT !.kopuk = TRUE]}
    /\ kusur' = kusur \cup {"koptu"}
    /\ UNCHANGED <<soruNo, belgeler, an, olusan>>

-----------------------------------------------------------------------------
(* The server.                                                             *)

Biter(s, uygun, error, eylem) ==
    /\ Gosterilir(s, Turn("assistant", s.soru, uygun, error, eylem))
    /\ sohbetler' = sohbetler \ {s}
    /\ UNCHANGED <<soruNo, belgeler, an, olusan>>

\* chatSchema
Kabul(s) == Len(s.history) <= MaxIleti /\ \A i \in DOMAIN s.history : s.history[i].uygun

Reddet(s) == ~Kabul(s) /\ Biter(s, TRUE, TRUE, {}) /\ UNCHANGED kusur

\* The model may be asked.
Sorulur(s) == Kabul(s) /\ s.cagri = 0 /\ s.turn < MaxTurn

Cevaplar(s) ==
    /\ Sorulur(s)
    /\ \E uygun \in BOOLEAN : Biter(s, uygun, FALSE, s.eylem)
    /\ UNCHANGED kusur

\* The model fails: the error leaves chat, what the tools did stays.
Patlar(s) ==
    /\ Sorulur(s)
    /\ Biter(s, TRUE, TRUE, {})
    /\ kusur' = IF s.eylem = {} THEN kusur ELSE kusur \cup {"yarim"}

\* Mutant of Tukenir: the closing answer forgets the actions.
TukenirBos(s) ==
    /\ Kabul(s) /\ s.cagri = 0 /\ s.turn = MaxTurn
    /\ Biter(s, TRUE, FALSE, {})
    /\ UNCHANGED kusur

\* The turns are used up.
Tukenir(s) ==
    /\ Kabul(s) /\ s.cagri = 0 /\ s.turn = MaxTurn
    /\ Biter(s, TRUE, FALSE, s.eylem)
    /\ UNCHANGED kusur

AracIster(s) ==
    /\ Sorulur(s)
    /\ \E n \in 1 .. MaxCagri :
          sohbetler' = (sohbetler \ {s}) \cup {[s EXCEPT !.turn = @ + 1, !.cagri = n]}
    /\ UNCHANGED <<turns, busy, soruNo, belgeler, an, olusan, kusur>>

\* A tool that stores no document: it reads, edits the operation plan, adds an
\* alert rule or offers a view, or it is refused (unknown, broken arguments, a finding of the linter,
\* an error of its handler).
AracOkur(s) ==
    /\ s.cagri > 0
    /\ sohbetler' = (sohbetler \ {s}) \cup {[s EXCEPT !.cagri = @ - 1]}
    /\ UNCHANGED <<turns, busy, soruNo, belgeler, an, olusan, kusur>>

AyniYer(o, p) == o.tur = p.tur /\ o.kimlik = p.kimlik

\* What an offer opens: the last document stored under its id.
Acilan(o) ==
    belgeler[CHOOSE i \in DOMAIN belgeler :
        /\ AyniYer(belgeler[i], o)
        /\ \A j \in DOMAIN belgeler : AyniYer(belgeler[j], o) => j <= i]

\* A tool that stores a document and offers to open it.  Milliseconds may have
\* passed since the last one.
AracYazar(s, tur) ==
    LET no == Len(belgeler) + 1
        kimlik == IF tur \in SaatliTur THEN an' ELSE no
        o == [tur |-> tur, kimlik |-> kimlik, no |-> no]
    IN  /\ s.cagri > 0
        /\ no <= MaxBelge
        /\ an' \in IF tur \in SaatliTur THEN {an, an + 1} ELSE {an}
        /\ belgeler' = Append(belgeler, o)
        /\ sohbetler' = (sohbetler \ {s}) \cup {[s EXCEPT !.cagri = @ - 1, !.eylem = @ \cup {o}]}
        /\ olusan' = olusan \cup {o}
        /\ kusur' = IF \E i \in DOMAIN belgeler : AyniYer(belgeler[i], o)
                    THEN kusur \cup {"ayni_an"} ELSE kusur
        /\ UNCHANGED <<turns, busy, soruNo>>

-----------------------------------------------------------------------------
SohbetInit ==
    /\ turns = << >> /\ busy = FALSE /\ sohbetler = {} /\ soruNo = 0
    /\ belgeler = << >> /\ an = 1 /\ olusan = {} /\ kusur = {}

SohbetNext ==
    \/ Send \/ Clear
    \/ \E s \in sohbetler :
          \/ Kopar(s) \/ Reddet(s) \/ Cevaplar(s) \/ Patlar(s) \/ Tukenir(s) \/ AracIster(s) \/ AracOkur(s)
          \/ \E tur \in SaatliTur \cup RastgeleTur : AracYazar(s, tur)

SohbetSpec == SohbetInit /\ [][SohbetNext]_sohbetVars

-----------------------------------------------------------------------------
(* Properties. *)

\* Every answer the model is shown follows the question it answers, whatever
\* failed, was refused or lost its connection before, unless the conversation
\* was cleared while an answer was on its way.
GecmisDogru ==
    "ucarken" \notin kusur =>
        \A s \in sohbetler : \A i \in DOMAIN s.history :
            s.history[i].rol = "assistant" =>
                i > 1 /\ s.history[i - 1].rol = "user" /\ s.history[i - 1].soru = s.history[i].soru

\* What the assistant stored is offered in the conversation as soon as it no
\* longer works on the question, unless the model or the connection failed
\* afterwards; and an offer opens the document it was made for, unless two of a
\* kind were stored in the same millisecond.
EtkiGorunur ==
    /\ kusur \cap {"yarim", "koptu"} = {} =>
           \A o \in olusan : \/ \E s \in sohbetler : o \in s.eylem
                             \/ \E i \in DOMAIN turns : o \in turns[i].eylem
    /\ "ayni_an" \notin kusur =>
           \A i \in DOMAIN turns : \A o \in turns[i].eylem : Acilan(o) = o

\* The conversation is true to what happened: the model's history pairs answers
\* with their questions, and what its tools stored is offered to the operator.
SohbetDogru == GecmisDogru /\ EtkiGorunur
=============================================================================
