\* Two accounts and a third to register, with three requests of any kind; or three
\* requests on one prompt, any of which may fail half-way.
SPECIFICATION WorkspaceSpec
CONSTANTS
  r1 = r1 r2 = r2 r3 = r3  u1 = u1 u2 = u2 u3 = u3  o1 = o1 o2 = o2 o3 = o3
  Requests = {r1, r2, r3}
  Users = {u1, u2, u3}
  Orgs = {o1, o2, o3}
  Invites = {i1, i2}
  Codes = {c1, c2}
  Tokens = {t1, t2}
  Keys = {k1, k2}
  Offered = {"Free", "Team"}
  Unborn = unborn
  Gone = gone
  Home <- MCHome
  Guest = u2
  Starts <- MCStarts
  tools = tools  production = production
  Editors = {r1, r2, r3}
  Original = original
  Sections = {tools}
  Unset = unset
  NoPart = nopart
  Environments = {production}
  NoRow = norow
INVARIANTS OwnerKept NewestOnly OneShot OrgsIntact PromptTypeOK NoTornVersions LostOnlyByOverlap
PROPERTIES CurrentOrgIsMine PaidPlanKept RestoreIsFaithful
SYMMETRY Symmetry
CHECK_DEADLOCK FALSE
