\* Every order of first sights over any number of windows, with two strings of one id.
SPECIFICATION VocabularySpec
CONSTANTS
  s1 = s1
  s2 = s2
  s3 = s3
  s4 = s4
  TemplateStr <- MCTemplateStr
  TemplateId = {1, 2, 3}
  IdOf <- MCIdOf
INVARIANTS
  IndexIsABijection
  CacheIsCoherent
PROPERTIES
  RegistryOnlyGrows
