\* As in MCConfigStore.cfg, for what the docs claim of passwords.  Two ids, so that one
\* is given again after a restart; a file of the older version
\* with or without passwords, none, or one that cannot be parsed.
CONSTANTS
  session = session
  custom = custom
  ttl = ttl
  field = field
  p1 = p1
  p2 = p2
  Names = {n1}
  Keys = {k1}
  GroupNames = {g1}
  TemplateNames = {session, custom}
  Presets = {p1, p2}
  Optional = {ttl, field}
  NoPreset = NoPreset
  DefaultTemplates <- MCDefaultTemplates
  Bindings = {b1, b2}
  DefaultBindings = b1
  Separators = {":", "/", ""}
  DefaultSeparator = ":"
  MaxRecentKeys = 2
  MaxValueHistory = 2
  MaxId = 2
  MaxGroups = 2
  MaxTemplates = 2
  Uses <- MCUses
SPECIFICATION Spec
INVARIANTS
  FileHasNoPassword
