------------------------------ MODULE Settings ------------------------------
(***************************************************************************)
(* The single rows the settings pages edit: the user's issuer profile and  *)
(* signature (users.py), the organization (organizations.py,               *)
(* single_tenant.py), and the permissions granted to a role                *)
(* (permissions.py, permission_repository.py). A row that does not exist   *)
(* is inserted by the first request that needs it, and its key is unique:  *)
(* a second INSERT fails (500). A row that was read is updated in the      *)
(* columns that changed. An upload goes to the file storage between the    *)
(* read and the commit.                                                    *)
(***************************************************************************)
EXTENDS Naturals, Sequences, FiniteSetsExt

CONSTANTS
  Requests,     \* the requests, each of them one call of one endpoint; a value is
                \* named after the request that gave it
  Permissions,  \* the active permissions
  None          \* no row, no value, the default colour (not a request)

VARIABLES
  profile,       \* the row of issuer_profiles
  organization,  \* the row of organizations
  signature,     \* users.signature_path and signature_text
  granted,       \* the permissions of the role
  req,           \* what each request is doing and has read
  log            \* history: the requests that have committed, in that order

vars == <<profile, organization, signature, granted, req, log>>

Value == Requests \cup {None}
Profile == [identity : Value, primary_color : Value, logo_path : Value, stamp_path : Value]
Organization == [identity : Value, logo_url : Value]
Signature == [path : Value, text : Value]

NewProfile == [identity |-> None, primary_color |-> None, logo_path |-> None, stamp_path |-> None]
NewOrganization == [identity |-> None, logo_url |-> None]

Operations == {"profile", "logo", "stamp", "signature", "text", "attach",
               "organization", "orgLogo", "grant", "revoke"}

\* profile, organization, signature, granted: as the request read them.
Request == [op : Operations \cup {None}, phase : {"new", "read", "done", "failed"},
            profile : Profile \cup {None}, organization : Organization \cup {None},
            signature : Signature, granted : SUBSET Permissions]

TypeOK == /\ profile \in Profile \cup {None}
          /\ organization \in Organization \cup {None}
          /\ signature \in Signature
          /\ granted \subseteq Permissions
          /\ req \in [Requests -> Request]
          /\ log \in Seq(Requests)

Init == /\ profile = None
        /\ organization = None
        /\ signature = [path |-> None, text |-> None]
        /\ granted = {}
        /\ req = [r \in Requests |-> [op |-> None, phase |-> "new", profile |-> None,
                                      organization |-> None, signature |-> signature,
                                      granted |-> {}]]
        /\ log = << >>

-----------------------------------------------------------------------------
Begin(r, op) ==
  /\ req[r].phase = "new"
  /\ req' = [req EXCEPT ![r] = [op |-> op, phase |-> "read", profile |-> profile,
                                organization |-> organization, signature |-> signature,
                                granted |-> granted]]
  /\ UNCHANGED <<profile, organization, signature, granted, log>>

\* _get_org_or_404
BeginOrganization(r, op) == organization # None /\ Begin(r, op)

Ending(r, op) == req[r].op = op /\ req[r].phase = "read"

\* Every column of the row is written.
ChangedAll(row, seen, new) == new

Changed(row, seen, new) == [f \in DOMAIN row |-> IF new[f] # seen[f] THEN new[f] ELSE row[f]]

Done(r) == req' = [req EXCEPT ![r].phase = "done"] /\ log' = Append(log, r)
Failed(r) == /\ req' = [req EXCEPT ![r].phase = "failed"]
             /\ UNCHANGED <<profile, organization, signature, granted, log>>

\* new: what the request makes of the profile it read, or of a new one; signed: of
\* the signature.
WriteProfile(r, new, signed) ==
  IF req[r].profile = None /\ profile # None
    THEN Failed(r)
    ELSE /\ profile' = IF req[r].profile = None THEN new
                       ELSE Changed(profile, req[r].profile, new)
         /\ signature' = Changed(signature, req[r].signature, signed)
         /\ Done(r)
         /\ UNCHANGED <<organization, granted>>

Read(r) == IF req[r].profile = None THEN NewProfile ELSE req[r].profile

\* The form names every text of the profile, the colour included or left empty, and
\* may leave the signature's text as it is.
UpdateProfile(r, colour, text) ==
  /\ Ending(r, "profile")
  /\ WriteProfile(r, [Read(r) EXCEPT !.identity = r, !.primary_color = colour],
                  [req[r].signature EXCEPT !.text = text])

\* The colour found in the logo replaces the default one only.
UploadLogo(r, extracted) ==
  /\ Ending(r, "logo")
  /\ WriteProfile(r, [Read(r) EXCEPT
       !.logo_path = r,
       !.primary_color = IF extracted /\ @ = None THEN r ELSE @], req[r].signature)

UploadStamp(r) ==
  /\ Ending(r, "stamp")
  /\ WriteProfile(r, [Read(r) EXCEPT !.stamp_path = r], req[r].signature)

\* The path is the user's; the profile is inserted if there was none, like that of the
\* other uploads.
UploadSignature(r) ==
  /\ Ending(r, "signature")
  /\ WriteProfile(r, Read(r), [req[r].signature EXCEPT !.path = r])

UpdateSignatureText(r, text) ==
  /\ Ending(r, "text")
  /\ signature' = Changed(signature, req[r].signature, [req[r].signature EXCEPT !.text = text])
  /\ Done(r)
  /\ UNCHANGED <<profile, organization, granted>>

\* ensure_default_organization, for a user who has none: the code of the organization
\* is unique. (The blanks it fills in an organization that is there are not its logo.)
AttachOrganization(r) ==
  /\ Ending(r, "attach")
  /\ IF req[r].organization = None /\ organization # None
       THEN Failed(r)
       ELSE /\ organization' = IF req[r].organization = None THEN NewOrganization ELSE organization
            /\ Done(r)
            /\ UNCHANGED <<profile, signature, granted>>

WriteOrganization(r, op, new) ==
  /\ Ending(r, op)
  /\ organization' = Changed(organization, req[r].organization, new)
  /\ Done(r)
  /\ UNCHANGED <<profile, signature, granted>>

UpdateOrganization(r) ==
  WriteOrganization(r, "organization", [req[r].organization EXCEPT !.identity = r])
UploadOrganizationLogo(r) ==
  WriteOrganization(r, "orgLogo", [req[r].organization EXCEPT !.logo_url = r])

\* "idempotent": a row that was read is left, one that was not is inserted.
Grant(r, p) ==
  /\ Ending(r, "grant")
  /\ IF p \in granted \ req[r].granted
       THEN Failed(r)
       ELSE /\ granted' = granted \cup ({p} \ req[r].granted)
            /\ Done(r)
            /\ UNCHANGED <<profile, organization, signature>>

Revoke(r, p) ==
  /\ Ending(r, "revoke")
  /\ granted' = granted \ ({p} \cap req[r].granted)
  /\ Done(r)
  /\ UNCHANGED <<profile, organization, signature>>

Next == \E r \in Requests :
  \/ \E op \in Operations \ {"organization", "orgLogo"} : Begin(r, op)
  \/ \E op \in {"organization", "orgLogo"} : BeginOrganization(r, op)
  \/ \E c \in {r, None}, t \in {r, None, req[r].signature.text} : UpdateProfile(r, c, t)
  \/ \E extracted \in BOOLEAN : UploadLogo(r, extracted)
  \/ UploadStamp(r) \/ UploadSignature(r) \/ (\E t \in {r, None} : UpdateSignatureText(r, t))
  \/ AttachOrganization(r) \/ UpdateOrganization(r) \/ UploadOrganizationLogo(r)
  \/ \E p \in Permissions : Grant(r, p) \/ Revoke(r, p)

Spec == Init /\ [][Next]_vars

-----------------------------------------------------------------------------
\* The last upload of each kind that was answered, or None.
LastUpload(op) == LET uploads == {i \in 1..Len(log) : req[log[i]].op = op}
                  IN  IF uploads = {} THEN None ELSE log[Max(uploads)]

\* Whatever forms are saved meanwhile, by requests that read the row before it had
\* the file, the files on the documents are the last ones uploaded.
UploadsSurvive ==
  /\ (IF profile = None THEN None ELSE profile.logo_path) = LastUpload("logo")
  /\ (IF profile = None THEN None ELSE profile.stamp_path) = LastUpload("stamp")
  /\ signature.path = LastUpload("signature")
  /\ (IF organization = None THEN None ELSE organization.logo_url) = LastUpload("orgLogo")
=============================================================================
