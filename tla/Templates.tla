------------------------------ MODULE Templates ------------------------------
(***************************************************************************)
(* E-mail templates: the seed that stores them, and                        *)
(* EmailTemplateRepository.render, which replaces one placeholder after    *)
(* the other in what the replacements before it have made of the text.     *)
(*                                                                         *)
(* A text has one piece where its template has a placeholder; the wording  *)
(* between is left out.  A piece is a placeholder or the value of one, and *)
(* an owner or a business may be called anything: the value may spell a    *)
(* placeholder, or hold "$&", which String.replaceAll turns into the       *)
(* matched text.  (A name that does so and says more is several pieces,    *)
(* each of which fares as if it were alone.)                               *)
(***************************************************************************)
EXTENDS Naturals, Sequences, Functions

CONSTANT Spelled  \* the placeholders that somebody may have typed as a name

VARIABLES
    stored,   \* slugs of the rows of email_templates
    letter    \* the letter that is rendered, or was rendered last

templatesVars == <<stored, letter>>

-----------------------------------------------------------------------------
(* The placeholders of each template, in the order of its text. *)
Welcome == [
    subject |-> <<"ownerName">>,
    html |-> <<"ownerName", "businessName", "ownerName", "planType",
               "outletCount", "expiryDate">>]

InvoiceReminder == [
    subject |-> <<"billingPeriod", "dueDate">>,
    html |-> <<"ownerName", "businessName", "invoiceNumber", "businessName",
               "billingPeriod", "amount", "dueDate">>]

InvoiceOverdue == [
    subject |-> <<"invoiceNumber">>,
    html |-> <<"ownerName", "businessName", "dueDate", "invoiceNumber",
               "businessName", "billingPeriod", "dueDate", "amount">>]

InvoicePaid == [
    subject |-> <<"invoiceNumber">>,
    html |-> <<"ownerName", "businessName", "invoiceNumber", "businessName",
               "billingPeriod", "paidAt", "amount">>]

(* What each caller passes, in the order of its object literal. *)
WelcomeVariables ==
    <<"ownerName", "businessName", "planType", "outletCount", "expiryDate">>
ReminderVariables ==
    <<"ownerName", "businessName", "invoiceNumber", "billingPeriod", "dueDate",
      "amount">>
OverdueVariables ==
    <<"ownerName", "businessName", "invoiceNumber", "billingPeriod", "dueDate",
      "amount">>
(* Mutant: a receipt does not need the due date, nor the date of payment. *)
PaidVariablesFewer ==
    <<"ownerName", "businessName", "invoiceNumber", "billingPeriod", "amount">>
PaidVariables ==
    <<"ownerName", "businessName", "invoiceNumber", "billingPeriod", "paidAt",
      "dueDate", "amount">>

Template == [s \in {"welcome", "invoice-reminder", "invoice-overdue",
                    "invoice-paid"} |->
    CASE s = "welcome" -> Welcome
      [] s = "invoice-reminder" -> InvoiceReminder
      [] s = "invoice-overdue" -> InvoiceOverdue
      [] s = "invoice-paid" -> InvoicePaid]

Slug == DOMAIN Template

Variables(s) == CASE s = "welcome" -> WelcomeVariables
                  [] s = "invoice-reminder" -> ReminderVariables
                  [] s = "invoice-overdue" -> OverdueVariables
                  [] s = "invoice-paid" -> PaidVariables

-----------------------------------------------------------------------------
Plain(k) == [is |-> "text", of |-> k]
Slot(k) == [is |-> "placeholder", of |-> k]
Match == [is |-> "$&", of |-> ""]

Text(template) == [i \in DOMAIN template |-> Slot(template[i])]

(* text.replaceAll("{{key}}", value) *)
Substitute(text, key, value) ==
    [i \in DOMAIN text |-> IF text[i] # Slot(key) THEN text[i]
                           ELSE IF value = Match THEN Slot(key) ELSE value]

(* The two names come as they were typed, which update and create take as  *)
(* it is.  The other values are the service's own.                         *)
Typed(k) == {Plain(k), Match} \cup {Slot(p) : p \in Spelled}

Values(s) ==
    {[k \in Range(Variables(s)) |-> IF k = "ownerName" THEN owner
                                    ELSE IF k = "businessName" THEN business
                                    ELSE Plain(k)] :
       owner \in Typed("ownerName"), business \in Typed("businessName")}

NoLetter == [slug |-> "", value |-> <<>>, replaced |-> 0,
             subject |-> <<>>, html |-> <<>>]

TemplatesInit == stored = {} /\ letter = NoLetter

(* seedEmailTemplates adds what is missing, one row at a time. *)
SeedTemplate(s) ==
    /\ stored' = stored \cup {s}
    /\ UNCHANGED letter

Rendered == letter.replaced = Len(Variables(letter.slug))

(* findBySlug fails if there is no row.  The loop that follows is one      *)
(* synchronous piece of code, so no other letter begins before its end.    *)
Render(s, value) ==
    /\ letter # NoLetter => Rendered
    /\ s \in stored
    /\ letter' = [slug |-> s, value |-> value, replaced |-> 0,
                  subject |-> Text(Template[s].subject),
                  html |-> Text(Template[s].html)]
    /\ UNCHANGED stored

(* One round of the loop: the next variable, in the subject and the text. *)
ReplaceNext ==
    /\ letter # NoLetter
    /\ ~Rendered
    /\ LET key == Variables(letter.slug)[letter.replaced + 1]
       IN letter' = [letter EXCEPT
                       !.replaced = @ + 1,
                       !.subject = Substitute(@, key, letter.value[key]),
                       !.html = Substitute(@, key, letter.value[key])]
    /\ UNCHANGED stored

TemplatesNext ==
    \/ \E s \in Slug : \/ SeedTemplate(s)
                       \/ \E value \in Values(s) : Render(s, value)
    \/ ReplaceNext

TemplatesSpec == TemplatesInit /\ [][TemplatesNext]_templatesVars

-----------------------------------------------------------------------------
(* The value of the i-th variable is harmless when it is not "$&" and      *)
(* spells no placeholder that is replaced after its own.                   *)
Harmless(s, value, i) ==
    LET v == Variables(s)
    IN /\ value[v[i]] # Match
       /\ \A j \in DOMAIN v : value[v[i]] = Slot(v[j]) => j <= i

(* The placeholders of a template and the variables of its caller are in   *)
(* different files, and the replacements act on each other's results.  All *)
(* the same, when the values are harmless every placeholder is replaced by *)
(* its own value and by nothing else: no "{{...}}" of a template is left   *)
(* in a letter, and no value is tampered with.                             *)
LettersAreFilled ==
    letter # NoLetter /\ Rendered =>
        LET s == letter.slug
            value == letter.value
            Filled(template) == [i \in DOMAIN template |-> value[template[i]]]
        IN (\A i \in DOMAIN Variables(s) : Harmless(s, value, i)) =>
             /\ \A k \in Range(Template[s].subject) \cup Range(Template[s].html) :
                    k \in DOMAIN value
             /\ letter.subject = Filled(Template[s].subject)
             /\ letter.html = Filled(Template[s].html)
=============================================================================
